---------------------------- MODULE Spec2Model ----------------------------
(***************************************************************************)
(* Voxel visibility engine of VoxelCity (src/src/voxelcity/sim/view.py):   *)
(* the three DDA ray kernels (trace_ray, trace_ray_sky,                    *)
(* trace_ray_to_target), the per-observer evaluators and the per-column    *)
(* map drivers (compute_gvi_map, compute_svi_map, compute_visibility_map,  *)
(* compute_landmark_visibility), mark_building_by_id and                   *)
(* get_landmark_visibility_map, and the prange loop of the drivers as      *)
(* interleaved iterations.                                                 *)
(*                                                                         *)
(* Numbers.  Origins, targets and directions are integer valued.  The      *)
(* kernels normalise the direction by length = sqrt(dx^2+dy^2+dz^2) and    *)
(* start at the voxel centre, so for an axis with component d # 0          *)
(*     t_max = 0.5 * length / |d|      t_delta = length / |d|.             *)
(* The model keeps these as fractions <<n, |d|>> in units of length/2      *)
(* (t_max = <<1,|d|>>, t_delta = <<2,|d|>>) and +infinity as <<1,0>>.      *)
(* Only the order of the three t_max values is ever used, and it does not  *)
(* depend on the unit.  Two axes with equal |d| go through the same        *)
(* floating-point operations, so their ties are exact in the code too; two *)
(* axes with different |d| whose fractions are equal are ordered by        *)
(* rounding, which RoundedBelow records.                                   *)
(***************************************************************************)
EXTENDS Integers, Naturals, Sequences, FiniteSets, TLC

VARIABLES
    voxel_data,   \* the 3D grid: voxel_data[x][y][z] is a semantic code
    pc,           \* position of the kernel call: "idle", "loop", "done"
    call,         \* arguments of the kernel call in progress
    ray,          \* the kernel's local variables i, j, k, step_*, t_max_*, t_delta_*
    result,       \* the kernel's return value, once pc = "done"
    visited,      \* history: the voxels whose index the loop head has tested, in order
    reads,        \* history: the voxels whose code the kernel has read
    mpc,          \* position of the map driver: "idle", "scan", "flip", "done", "error", "zero_division"
    job,          \* arguments of the map computation in progress
    pos,          \* the row x the driver's outer loop is at
    map,          \* the driver's 2D array, map[x][y]
    scan,         \* history: per column, what the observer search did
    returned,     \* the array handed back to the caller
    building_id_grid,  \* the caller's 2D array of building ids
    marking,      \* the get_landmark_visibility_map call: ids, marking loop, grid at entry
    workers,      \* the parallel x loop: per x, the iteration's position and locals
    first         \* history: what an earlier run of the same driver selected and returned

vars == <<voxel_data, pc, call, ray, result, visited, reads,
          mpc, job, pos, map, scan, returned,
          building_id_grid, marking, workers, first>>

kernelVars == <<pc, call, ray, result, visited, reads>>
mapVars == <<mpc, job, pos, map, scan, returned>>
callerVars == <<building_id_grid, marking, workers, first>>

-----------------------------------------------------------------------------
(* Code tables *)

\* a green table that also holds the building code
GreenCodesWithBuilding == {-3, -2, 2, 5, 7}

\* view.py:79  green voxel types
GreenCodes == {-2, 2, 5, 7}

\* view.py:318  the void code: the only code a sky ray passes
VoidCode == 0

\* view.py:774  sentinel written over landmark buildings
TargetValue == -30

\* view.py:519  building volume
BuildingCode == -3

Abs(n) == IF n < 0 THEN 0 - n ELSE n

-----------------------------------------------------------------------------
(* The grid *)

NxOf(v) == Cardinality(DOMAIN v)
NyOf(v) == Cardinality(DOMAIN v[0])
NzOf(v) == Cardinality(DOMAIN v[0][0])

\* view.py:76  (0 <= i < nx) and (0 <= j < ny) and (0 <= k < nz)
InBounds(v, i, j, k) ==
    /\ 0 <= i /\ i < NxOf(v)
    /\ 0 <= j /\ j < NyOf(v)
    /\ 0 <= k /\ k < NzOf(v)

-----------------------------------------------------------------------------
(* Fractions for t_max and t_delta *)

Inf == <<1, 0>>

\* Rounding.  Two t_max values of axes with different |d| that are equal as
\* fractions are computed by different double-precision operations
\* (d / length, 0.5 / d, abs(1 / d), repeated +=) and may differ in the last
\* bit.  <<len2, n1, d1, n2, d2>> is listed when, for a direction with
\* dx^2 + dy^2 + dz^2 = len2, the double for n1/d1 (the t_max of an axis of
\* magnitude d1 after (n1 - 1) / 2 steps) is below the double for n2/d2
\* although n1/d1 = n2/d2.  The list is complete for directions whose three
\* components have magnitude at most 9 and for at most 20 steps along an axis
\* (n1, n2 <= 41).  Two axes of the same magnitude have the same doubles, and
\* components of magnitude 1 and 2 only give no equal fractions.
RoundedBelow ==
    { <<10, 1, 1, 3, 3>>, <<10, 15, 3, 5, 1>>, <<10, 21, 3, 7, 1>>,
      <<10, 27, 3, 9, 1>>, <<11, 7, 1, 21, 3>>, <<11, 9, 1, 27, 3>>,
      <<11, 9, 3, 3, 1>>, <<11, 11, 1, 33, 3>>, <<11, 13, 1, 39, 3>>,
      <<14, 3, 3, 1, 1>>, <<14, 13, 1, 39, 3>>, <<14, 15, 3, 5, 1>>,
      <<14, 21, 3, 7, 1>>, <<14, 27, 3, 9, 1>>, <<19, 7, 1, 21, 3>>,
      <<19, 33, 3, 11, 1>>, <<19, 39, 3, 13, 1>>, <<26, 3, 1, 15, 5>>,
      <<26, 5, 1, 25, 5>>, <<26, 9, 3, 3, 1>>, <<27, 25, 5, 5, 1>>,
      <<30, 5, 5, 1, 1>>, <<30, 15, 5, 3, 1>>, <<30, 25, 5, 5, 1>>,
      <<30, 35, 5, 7, 1>>, <<34, 15, 3, 25, 5>>, <<34, 15, 5, 9, 3>>,
      <<34, 21, 3, 35, 5>>, <<35, 5, 1, 15, 3>>, <<35, 5, 1, 25, 5>>,
      <<35, 5, 5, 1, 1>>, <<35, 5, 5, 3, 3>>, <<35, 7, 1, 21, 3>>,
      <<35, 9, 1, 27, 3>>, <<35, 11, 1, 33, 3>>, <<35, 13, 1, 39, 3>>,
      <<35, 25, 5, 15, 3>>, <<35, 35, 5, 7, 1>>, <<35, 35, 5, 21, 3>>,
      <<38, 3, 3, 5, 5>>, <<38, 9, 3, 15, 5>>, <<38, 15, 3, 25, 5>>,
      <<38, 21, 3, 35, 5>>, <<40, 1, 2, 3, 6>>, <<40, 15, 6, 5, 2>>,
      <<40, 21, 6, 7, 2>>, <<40, 27, 6, 9, 2>>, <<41, 3, 2, 9, 6>>,
      <<41, 5, 2, 15, 6>>, <<41, 13, 2, 39, 6>>, <<41, 27, 6, 9, 2>>,
      <<42, 7, 1, 35, 5>>, <<42, 15, 5, 3, 1>>, <<43, 15, 3, 25, 5>>,
      <<43, 21, 3, 35, 5>>, <<44, 7, 2, 21, 6>>, <<44, 9, 2, 27, 6>>,
      <<44, 9, 6, 3, 2>>, <<44, 11, 2, 33, 6>>, <<44, 13, 2, 39, 6>>,
      <<46, 3, 3, 1, 1>>, <<46, 33, 3, 11, 1>>, <<46, 39, 3, 13, 1>>,
      <<49, 3, 2, 9, 6>>, <<49, 5, 2, 15, 6>>, <<49, 13, 2, 39, 6>>,
      <<49, 27, 6, 9, 2>>, <<50, 3, 1, 21, 7>>, <<50, 15, 3, 25, 5>>,
      <<50, 21, 3, 35, 5>>, <<51, 1, 1, 5, 5>>, <<51, 3, 1, 21, 7>>,
      <<51, 5, 1, 35, 7>>, <<51, 35, 5, 7, 1>>, <<54, 35, 7, 5, 1>>,
      <<56, 3, 6, 1, 2>>, <<56, 13, 2, 39, 6>>, <<56, 15, 6, 5, 2>>,
      <<56, 21, 6, 7, 2>>, <<56, 27, 6, 9, 2>>, <<58, 3, 3, 7, 7>>,
      <<58, 21, 7, 9, 3>>, <<58, 35, 7, 15, 3>>, <<59, 1, 1, 7, 7>>,
      <<59, 3, 1, 21, 7>>, <<59, 3, 3, 5, 5>>, <<59, 3, 3, 7, 7>>,
      <<59, 5, 1, 15, 3>>, <<59, 5, 1, 35, 7>>, <<59, 7, 1, 21, 3>>,
      <<59, 9, 1, 27, 3>>, <<59, 9, 3, 21, 7>>, <<59, 15, 5, 9, 3>>,
      <<59, 25, 5, 15, 3>>, <<59, 35, 5, 21, 3>>, <<59, 39, 3, 13, 1>>,
      <<62, 3, 3, 7, 7>>, <<62, 9, 3, 21, 7>>, <<62, 25, 5, 5, 1>>,
      <<62, 35, 5, 7, 1>>, <<66, 21, 7, 3, 1>>, <<67, 7, 7, 3, 3>>,
      <<67, 21, 7, 9, 3>>, <<67, 35, 7, 15, 3>>, <<70, 5, 5, 3, 3>>,
      <<70, 15, 5, 9, 3>>, <<70, 21, 3, 35, 5>>, <<74, 15, 3, 5, 1>>,
      <<74, 15, 3, 35, 7>>, <<74, 15, 5, 21, 7>>, <<74, 21, 3, 7, 1>>,
      <<74, 25, 5, 35, 7>>, <<74, 27, 3, 9, 1>>, <<74, 33, 3, 11, 1>>,
      <<74, 39, 3, 13, 1>>, <<75, 1, 1, 7, 7>>, <<75, 3, 1, 21, 7>>,
      <<75, 5, 5, 7, 7>>, <<75, 7, 1, 35, 5>>, <<75, 15, 5, 21, 7>>,
      <<76, 7, 2, 21, 6>>, <<76, 33, 6, 11, 2>>, <<76, 39, 6, 13, 2>>,
      <<78, 21, 7, 15, 5>>, <<78, 35, 7, 25, 5>>, <<82, 3, 1, 27, 9>>,
      <<82, 9, 9, 1, 1>>, <<83, 3, 1, 27, 9>>, <<83, 15, 3, 35, 7>>,
      <<83, 15, 5, 9, 3>>, <<83, 21, 3, 35, 5>>, <<83, 21, 7, 9, 3>>,
      <<83, 21, 7, 15, 5>>, <<83, 25, 5, 35, 7>>, <<86, 3, 1, 21, 7>>,
      <<86, 5, 1, 35, 7>>, <<86, 27, 9, 3, 1>>, <<89, 7, 2, 21, 6>>,
      <<89, 9, 2, 27, 6>>, <<89, 9, 6, 3, 2>>, <<89, 11, 2, 33, 6>>,
      <<89, 13, 2, 39, 6>>, <<90, 1, 3, 3, 9>>, <<90, 3, 1, 15, 5>>,
      <<90, 15, 5, 21, 7>>, <<90, 15, 9, 5, 3>>, <<90, 21, 9, 7, 3>>,
      <<90, 25, 5, 5, 1>>, <<90, 25, 5, 35, 7>>, <<90, 27, 9, 9, 3>>,
      <<90, 35, 5, 7, 1>>, <<91, 1, 1, 3, 3>>, <<91, 3, 1, 9, 3>>,
      <<91, 3, 1, 27, 9>>, <<91, 3, 9, 1, 3>>, <<91, 9, 1, 27, 3>>,
      <<91, 9, 9, 3, 3>>, <<91, 11, 1, 33, 3>>, <<91, 13, 1, 39, 3>>,
      <<91, 15, 9, 5, 3>>, <<91, 39, 9, 13, 3>>, <<94, 3, 9, 1, 3>>,
      <<94, 9, 9, 3, 3>>, <<94, 15, 9, 5, 3>>, <<94, 21, 7, 9, 3>>,
      <<94, 21, 9, 7, 3>>, <<94, 27, 9, 9, 3>>, <<94, 33, 9, 11, 3>>,
      <<94, 35, 7, 15, 3>>, <<94, 39, 9, 13, 3>>, <<98, 3, 1, 27, 9>>,
      <<98, 21, 3, 35, 5>>, <<99, 7, 3, 21, 9>>, <<99, 9, 3, 27, 9>>,
      <<99, 9, 9, 3, 3>>, <<99, 11, 3, 33, 9>>, <<99, 13, 3, 39, 9>>,
      <<99, 21, 7, 15, 5>>, <<104, 9, 6, 3, 2>>, <<106, 27, 9, 15, 5>>,
      <<107, 5, 1, 25, 5>>, <<107, 21, 7, 9, 3>>, <<107, 35, 7, 15, 3>>,
      <<110, 5, 5, 7, 7>>, <<110, 5, 5, 9, 9>>, <<110, 15, 5, 21, 7>>,
      <<110, 15, 5, 27, 9>>, <<110, 25, 5, 35, 7>>, <<114, 5, 1, 35, 7>>,
      <<114, 21, 7, 3, 1>>, <<115, 5, 3, 15, 9>>, <<115, 7, 3, 21, 9>>,
      <<115, 9, 3, 15, 5>>, <<115, 9, 3, 27, 9>>, <<115, 15, 3, 25, 5>>,
      <<115, 21, 3, 35, 5>>, <<115, 39, 9, 13, 3>>, <<118, 27, 9, 3, 1>>,
      <<121, 3, 2, 9, 6>>, <<121, 5, 2, 15, 6>>, <<121, 7, 2, 21, 6>>,
      <<121, 33, 6, 11, 2>>, <<122, 5, 5, 9, 9>>, <<122, 15, 3, 35, 7>>,
      <<122, 15, 5, 27, 9>>, <<123, 25, 5, 35, 7>>, <<126, 3, 9, 1, 3>>,
      <<126, 13, 3, 39, 9>>, <<126, 15, 9, 5, 3>>, <<126, 21, 9, 7, 3>>,
      <<126, 27, 9, 9, 3>>, <<130, 7, 7, 9, 9>>, <<131, 1, 1, 7, 7>>,
      <<131, 5, 1, 35, 7>>, <<131, 5, 5, 9, 9>>, <<131, 9, 9, 7, 7>>,
      <<131, 27, 9, 3, 1>>, <<131, 27, 9, 15, 5>>, <<131, 27, 9, 21, 7>>,
      <<134, 7, 7, 9, 9>>, <<134, 21, 7, 27, 9>>, <<138, 7, 7, 5, 5>>,
      <<138, 21, 7, 15, 5>>, <<138, 35, 7, 25, 5>>, <<139, 5, 3, 15, 9>>,
      <<139, 7, 3, 21, 9>>, <<139, 9, 3, 21, 7>>, <<139, 9, 3, 27, 9>>,
      <<139, 15, 3, 35, 7>>, <<139, 39, 9, 13, 3>>, <<142, 5, 5, 9, 9>>,
      <<142, 15, 5, 27, 9>>, <<146, 9, 9, 7, 7>>, <<146, 27, 9, 3, 1>>,
      <<146, 27, 9, 21, 7>>, <<154, 3, 9, 1, 3>>, <<155, 27, 9, 15, 5>>,
      <<155, 27, 9, 21, 7>>, <<155, 35, 7, 25, 5>>, <<163, 27, 9, 3, 1>>,
      <<166, 7, 7, 9, 9>>, <<170, 15, 5, 27, 9>>, <<171, 5, 3, 15, 9>>,
      <<171, 7, 3, 21, 9>>, <<171, 33, 9, 11, 3>>, <<171, 39, 9, 13, 3>>,
      <<179, 21, 7, 27, 9>>, <<187, 5, 5, 9, 9>>, <<187, 27, 9, 15, 5>> }

\* a < b on doubles, +infinity included (inf < inf is false), for a direction
\* of squared length len2
Lt(len2, a, b) ==
    /\ a[2] # 0
    /\ \/ b[2] = 0
       \/ a[1] * b[2] < b[1] * a[2]
       \/ a[1] * b[2] = b[1] * a[2] /\ <<len2, a[1], a[2], b[1], b[2]>> \in RoundedBelow

\* t_max += t_delta for one axis (both have the same denominator; inf + inf = inf)
Plus(a, b) == IF a[2] = 0 THEN Inf ELSE <<a[1] + b[1], a[2]>>

\* A variant without the zero-length test.
ZeroLengthNever(d) == FALSE

\* length == 0.0
ZeroLength(d) == d[1] = 0 /\ d[2] = 0 /\ d[3] = 0

\* A step sign that is positive on every axis.
StepSignPositive(d) == 1

\* step_x = 1 if dx >= 0 else -1
StepSign(d) == IF d >= 0 THEN 1 ELSE 0 - 1

\* A t_max that is finite on an axis the ray does not move along.
TMaxInitFinite(d) == IF d # 0 THEN <<1, Abs(d)>> ELSE <<1, 1>>

\* t_max_x = ((i + (step_x > 0)) - x) / dx  with x = x0 + 0.5, i = int(x0)
TMaxInit(d) == IF d # 0 THEN <<1, Abs(d)>> ELSE Inf

\* t_delta_x = abs(1 / dx)
TDeltaInit(d) == IF d # 0 THEN <<2, Abs(d)>> ELSE Inf

\* view.py:43-73 (and 283-312, 550-580): the kernel's locals before the loop
RayInit(origin, d) ==
    [i |-> origin[1], j |-> origin[2], k |-> origin[3],
     step_x |-> StepSign(d[1]), step_y |-> StepSign(d[2]), step_z |-> StepSign(d[3]),
     t_max_x |-> TMaxInit(d[1]), t_max_y |-> TMaxInit(d[2]), t_max_z |-> TMaxInit(d[3]),
     t_delta_x |-> TDeltaInit(d[1]), t_delta_y |-> TDeltaInit(d[2]),
     t_delta_z |-> TDeltaInit(d[3]),
     len2 |-> d[1] * d[1] + d[2] * d[2] + d[3] * d[3]]

\* A y step that moves the index and leaves t_max_y as it was.
StepYWithoutDelta(r) == [r EXCEPT !.j = r.j + r.step_y]

\* An x step that adds t_delta_x and leaves the index where it was.
StepXWithoutMove(r) == [r EXCEPT !.t_max_x = Plus(r.t_max_x, r.t_delta_x)]

StepX(r) == [r EXCEPT !.t_max_x = Plus(r.t_max_x, r.t_delta_x), !.i = r.i + r.step_x]
StepY(r) == [r EXCEPT !.t_max_y = Plus(r.t_max_y, r.t_delta_y), !.j = r.j + r.step_y]
StepZ(r) == [r EXCEPT !.t_max_z = Plus(r.t_max_z, r.t_delta_z), !.k = r.k + r.step_z]

\* A variant that prefers x, then y, then z on equal t_max values.
AdvanceXFirst(r) ==
    IF ~Lt(r.len2, r.t_max_y, r.t_max_x)
    THEN IF ~Lt(r.len2, r.t_max_z, r.t_max_x) THEN StepX(r) ELSE StepZ(r)
    ELSE IF ~Lt(r.len2, r.t_max_z, r.t_max_y) THEN StepY(r) ELSE StepZ(r)

\* view.py:84-101 (and 322-339, 597-614): move to the next voxel
Advance(r) ==
    IF Lt(r.len2, r.t_max_x, r.t_max_y)
    THEN IF Lt(r.len2, r.t_max_x, r.t_max_z) THEN StepX(r) ELSE StepZ(r)
    ELSE IF Lt(r.len2, r.t_max_y, r.t_max_z) THEN StepY(r) ELSE StepZ(r)


-----------------------------------------------------------------------------
(* The three kernels: one loop iteration each, and the whole call *)

Code(v, r) == v[r.i][r.j][r.k]

\* A variant whose green table lacks code 2.
GreenIterNarrow(v, r) ==
    IF ~InBounds(v, r.i, r.j, r.k) THEN [done |-> TRUE, value |-> FALSE, ray |-> r]
    ELSE IF Code(v, r) \in {-2, 5, 7} THEN [done |-> TRUE, value |-> TRUE, ray |-> r]
    ELSE [done |-> FALSE, value |-> FALSE, ray |-> Advance(r)]

\* A variant that steps before it tests, so that the origin voxel is never
\* tested.
GreenIterStepFirst(v, r) ==
    IF ~InBounds(v, r.i, r.j, r.k) THEN [done |-> TRUE, value |-> FALSE, ray |-> r]
    ELSE LET n == Advance(r)
         IN IF ~InBounds(v, n.i, n.j, n.k) THEN [done |-> TRUE, value |-> FALSE, ray |-> n]
            ELSE IF Code(v, n) \in GreenCodes THEN [done |-> TRUE, value |-> TRUE, ray |-> n]
            ELSE [done |-> FALSE, value |-> FALSE, ray |-> n]

\* view.py:76-101  one pass of trace_ray's while loop
GreenIter(v, r) ==
    IF ~InBounds(v, r.i, r.j, r.k) THEN [done |-> TRUE, value |-> FALSE, ray |-> r]
    ELSE IF Code(v, r) \in GreenCodes THEN [done |-> TRUE, value |-> TRUE, ray |-> r]
    ELSE [done |-> FALSE, value |-> FALSE, ray |-> Advance(r)]

\* A variant that counts a ray that is outside the grid as blocked.
SkyIterOutsideBlocked(v, r) ==
    IF ~InBounds(v, r.i, r.j, r.k) THEN [done |-> TRUE, value |-> FALSE, ray |-> r]
    ELSE IF Code(v, r) # VoidCode THEN [done |-> TRUE, value |-> FALSE, ray |-> r]
    ELSE [done |-> FALSE, value |-> FALSE, ray |-> Advance(r)]

\* A variant that is blocked by negative codes only.
SkyIterNegative(v, r) ==
    IF ~InBounds(v, r.i, r.j, r.k) THEN [done |-> TRUE, value |-> TRUE, ray |-> r]
    ELSE IF Code(v, r) < 0 THEN [done |-> TRUE, value |-> FALSE, ray |-> r]
    ELSE [done |-> FALSE, value |-> FALSE, ray |-> Advance(r)]

\* view.py:315-342  one pass of trace_ray_sky's while loop
SkyIter(v, r) ==
    IF ~InBounds(v, r.i, r.j, r.k) THEN [done |-> TRUE, value |-> TRUE, ray |-> r]
    ELSE IF Code(v, r) # VoidCode THEN [done |-> TRUE, value |-> FALSE, ray |-> r]
    ELSE [done |-> FALSE, value |-> FALSE, ray |-> Advance(r)]

\* A variant that tests for the target before it tests for an opaque code.
TargetIterTargetFirst(v, r, target, opaque_values) ==
    IF ~InBounds(v, r.i, r.j, r.k) THEN [done |-> TRUE, value |-> FALSE, ray |-> r]
    ELSE IF r.i = target[1] /\ r.j = target[2] /\ r.k = target[3]
         THEN [done |-> TRUE, value |-> TRUE, ray |-> r]
    ELSE IF Code(v, r) \in opaque_values THEN [done |-> TRUE, value |-> FALSE, ray |-> r]
    ELSE [done |-> FALSE, value |-> FALSE, ray |-> Advance(r)]

\* view.py:583-614  one pass of trace_ray_to_target's while True loop
TargetIter(v, r, target, opaque_values) ==
    IF ~InBounds(v, r.i, r.j, r.k) THEN [done |-> TRUE, value |-> FALSE, ray |-> r]
    ELSE IF Code(v, r) \in opaque_values THEN [done |-> TRUE, value |-> FALSE, ray |-> r]
    ELSE IF r.i = target[1] /\ r.j = target[2] /\ r.k = target[3]
         THEN [done |-> TRUE, value |-> TRUE, ray |-> r]
    ELSE [done |-> FALSE, value |-> FALSE, ray |-> Advance(r)]

RECURSIVE GreenLoop(_, _)
GreenLoop(v, r) ==
    LET s == GreenIter(v, r) IN IF s.done THEN s.value ELSE GreenLoop(v, s.ray)

RECURSIVE SkyLoop(_, _)
SkyLoop(v, r) ==
    LET s == SkyIter(v, r) IN IF s.done THEN s.value ELSE SkyLoop(v, s.ray)

RECURSIVE TargetLoop(_, _, _, _)
TargetLoop(v, r, target, opaque_values) ==
    LET s == TargetIter(v, r, target, opaque_values)
    IN IF s.done THEN s.value ELSE TargetLoop(v, s.ray, target, opaque_values)

\* view.py:20-103
trace_ray(v, origin, direction) ==
    IF ZeroLength(direction) THEN FALSE
    ELSE GreenLoop(v, RayInit(origin, direction))

\* view.py:258-342
trace_ray_sky(v, origin, direction) ==
    IF ZeroLength(direction) THEN FALSE
    ELSE SkyLoop(v, RayInit(origin, direction))

\* a difference taken from the target to the origin
DiffReversed(target, origin) ==
    <<origin[1] - target[1], origin[2] - target[2], origin[3] - target[3]>>

Diff(target, origin) ==
    <<target[1] - origin[1], target[2] - origin[2], target[3] - origin[3]>>

\* view.py:522-614
trace_ray_to_target(v, origin, target, opaque_values) ==
    IF ZeroLength(Diff(target, origin)) THEN TRUE
    ELSE TargetLoop(v, RayInit(origin, Diff(target, origin)), target, opaque_values)

-----------------------------------------------------------------------------
(* Inputs of the kernel specification *)

\* side of the cubic grids the kernels are run on
RayN == 2

UniformGrid(nx, ny, nz, f) ==
    [x \in 0..(nx - 1) |-> [y \in 0..(ny - 1) |-> [z \in 0..(nz - 1) |-> f]]]

WithVoxel(g, p, c) == [g EXCEPT ![p[1]][p[2]][p[3]] = c]

CellsOf(v) ==
    {<<x, y, z>> : x \in 0..(NxOf(v) - 1), y \in 0..(NyOf(v) - 1), z \in 0..(NzOf(v) - 1)}

\* the code every voxel but one holds: void, or a non-green land cover
RayFill == {0, 1}

\* the code of the one distinguished voxel: void, green, building volume
RayFeature == {0, 2, -3}

\* a void grid twice as high as it is wide, for rays between distant voxels
TallGrid == UniformGrid(RayN, RayN, 2 * RayN, 0)

RayGrids ==
    {WithVoxel(UniformGrid(RayN, RayN, RayN, f), p, c) :
        f \in RayFill, c \in RayFeature, p \in CellsOf(UniformGrid(RayN, RayN, RayN, 0))}
    \cup {TallGrid}

\* origins: every voxel of the grid and the layer just above it (the observer
\* of a map driver is at z + view_height_voxel, which may be nz or more)
RayOrigins(v) ==
    {<<x, y, z>> : x \in 0..(NxOf(v) - 1), y \in 0..(NyOf(v) - 1), z \in 0..NzOf(v)}

\* directions: axis-parallel, diagonal and the zero vector, and some oblique ones
Directions ==
    {<<a, b, c>> : a \in {-1, 0, 1}, b \in {-1, 0, 1}, c \in {-1, 0, 1}}
    \cup {<<2, 1, 0>>, <<1, 2, 0>>, <<-2, 0, 1>>, <<0, -1, 2>>, <<1, -2, -1>>, <<-2, 2, -1>>}

\* an opaque set that keeps the target value
OpaqueValuesWithTarget(v, target_value) ==
    {v[c[1]][c[2]][c[3]] : c \in CellsOf(v)} \ {0}

\* view.py:699-700  unique codes of the grid other than void and the target
OpaqueValuesOf(v, target_value) ==
    {v[c[1]][c[2]][c[3]] : c \in CellsOf(v)} \ {0, target_value}

NoRay == RayInit(<<0, 0, 0>>, <<0, 0, 0>>)
NoCall == [mode |-> "none", origin |-> <<0, 0, 0>>, direction |-> <<0, 0, 0>>,
           target |-> <<0, 0, 0>>, opaque_values |-> {}]
NoJob == [mode |-> "none", view_height_voxel |-> 0, ray_directions |-> <<>>,
          landmark_positions |-> <<>>, opaque_values |-> {}]

KernelIdle ==
    /\ pc = "idle" /\ call = NoCall /\ ray = NoRay /\ result = FALSE
    /\ visited = <<>> /\ reads = {}

MapIdle ==
    /\ mpc = "idle" /\ job = NoJob /\ pos = 0
    /\ map = <<>> /\ scan = <<>> /\ returned = <<>>

\* no get_landmark_visibility_map call, no parallel loop, no earlier run
NoMarking == [stage |-> "none", ids |-> {}, positions |-> <<>>, i |-> 0,
              view_height_voxel |-> 0, before |-> <<>>]

CallerIdle ==
    /\ marking = NoMarking /\ workers = <<>> /\ first = <<>>

InitRay ==
    /\ voxel_data \in RayGrids
    /\ KernelIdle
    /\ MapIdle
    /\ building_id_grid = <<>>
    /\ CallerIdle

-----------------------------------------------------------------------------
(* The kernels, step by step *)

\* view.py:31-73, 271-312, 535-580: unpack, normalise (zero length returns at
\* once), set up the traversal
Enter(mode, origin, direction, target, opaque_values, zero_value) ==
    /\ call' = [mode |-> mode, origin |-> origin, direction |-> direction,
                target |-> target, opaque_values |-> opaque_values]
    /\ IF ZeroLength(direction)
       THEN /\ pc' = "done"
            /\ result' = zero_value
            /\ ray' = ray
       ELSE /\ pc' = "loop"
            /\ result' = result
            /\ ray' = RayInit(origin, direction)
    /\ UNCHANGED <<voxel_data, visited, reads, mapVars, callerVars>>

CallTraceRay ==
    /\ pc = "idle"
    /\ \E o \in RayOrigins(voxel_data), d \in Directions :
        Enter("green", o, d, o, {}, FALSE)

CallTraceRaySky ==
    /\ pc = "idle"
    /\ \E o \in RayOrigins(voxel_data), d \in Directions :
        Enter("sky", o, d, o, {}, FALSE)

CallTraceRayToTarget ==
    /\ pc = "idle"
    /\ \E o \in RayOrigins(voxel_data), t \in RayOrigins(voxel_data) :
        Enter("target", o, Diff(t, o), t, OpaqueValuesOf(voxel_data, TargetValue), TRUE)

\* one pass of the loop of the kernel in progress
Iterate(s) ==
    /\ visited' = Append(visited, <<ray.i, ray.j, ray.k>>)
    /\ reads' = IF InBounds(voxel_data, ray.i, ray.j, ray.k)
                THEN reads \cup {<<ray.i, ray.j, ray.k>>} ELSE reads
    /\ ray' = s.ray
    /\ IF s.done
       THEN pc' = "done" /\ result' = s.value
       ELSE pc' = "loop" /\ result' = result
    /\ UNCHANGED <<voxel_data, call, mapVars, callerVars>>

LoopTraceRay ==
    /\ pc = "loop" /\ call.mode = "green"
    /\ Iterate(GreenIter(voxel_data, ray))

LoopTraceRaySky ==
    /\ pc = "loop" /\ call.mode = "sky"
    /\ Iterate(SkyIter(voxel_data, ray))

LoopTraceRayToTarget ==
    /\ pc = "loop" /\ call.mode = "target"
    /\ Iterate(TargetIter(voxel_data, ray, call.target, call.opaque_values))

NextRay ==
    \/ CallTraceRay
    \/ CallTraceRaySky
    \/ CallTraceRayToTarget
    \/ LoopTraceRay
    \/ LoopTraceRaySky
    \/ LoopTraceRayToTarget

SpecRay == InitRay /\ [][NextRay]_vars

-----------------------------------------------------------------------------
(* Claims about the kernels, checked under SpecRay *)

VoxelIn(p) == InBounds(voxel_data, p[1], p[2], p[3])
CodeAt(p) == voxel_data[p[1]][p[2]][p[3]]
Returned(mode) == pc = "done" /\ call.mode = mode /\ call.direction # <<0, 0, 0>>
LastVisited == visited[Len(visited)]

\* C1: in green-hit mode the kernel tests the origin voxel first and then every
\* voxel of the traversal in order; it returns True at the first voxel whose
\* code is one of -2, 2, 5, 7, and returns False when the indices leave the
\* grid and no voxel visited before was green.
C1_GreenHit ==
    /\ (pc = "loop" /\ call.mode = "green") =>
           \A m \in 1..Len(visited) :
               VoxelIn(visited[m]) /\ CodeAt(visited[m]) \notin {-2, 2, 5, 7}
    /\ Returned("green") =>
           /\ Len(visited) >= 1
           /\ visited[1] = call.origin
           /\ \A m \in 1..(Len(visited) - 1) :
                  VoxelIn(visited[m]) /\ CodeAt(visited[m]) \notin {-2, 2, 5, 7}
           /\ result = (VoxelIn(LastVisited) /\ CodeAt(LastVisited) \in {-2, 2, 5, 7})
           /\ (~result) = ~VoxelIn(LastVisited)

\* a green ray that passed two voxels and hit a green one; one that left the grid
C1_Witness ==
    /\ Returned("green") /\ result /\ Len(visited) >= 3
    /\ CodeAt(visited[1]) = 1

\* C2: in sky mode the kernel returns True only when the traversal, origin voxel
\* included, leaves the grid having visited void voxels only; the first
\* visited voxel whose code is not 0 makes it return False at once.
C2_SkyExit ==
    /\ (pc = "loop" /\ call.mode = "sky") =>
           \A m \in 1..Len(visited) : VoxelIn(visited[m]) /\ CodeAt(visited[m]) = 0
    /\ Returned("sky") =>
           /\ Len(visited) >= 1
           /\ visited[1] = call.origin
           /\ \A m \in 1..(Len(visited) - 1) :
                  VoxelIn(visited[m]) /\ CodeAt(visited[m]) = 0
           /\ result = ~VoxelIn(LastVisited)
           /\ (~result) = (VoxelIn(LastVisited) /\ CodeAt(LastVisited) # 0)

\* a sky ray that crossed void voxels and left the grid
C2_Witness ==
    /\ Returned("sky") /\ result /\ Len(visited) >= 3
    /\ \E c \in CellsOf(voxel_data) : CodeAt(c) # 0

\* C3: in target mode the kernel, at each visited voxel in order, returns False
\* if the voxel is outside the grid, returns False if its code is opaque, and
\* otherwise returns True as soon as the voxel is the target's; it never
\* returns True after an opaque or out-of-bounds voxel.
C3_Target ==
    /\ (pc = "loop" /\ call.mode = "target") =>
           \A m \in 1..Len(visited) :
               /\ VoxelIn(visited[m])
               /\ CodeAt(visited[m]) \notin call.opaque_values
               /\ visited[m] # call.target
    /\ Returned("target") =>
           /\ Len(visited) >= 1
           /\ visited[1] = call.origin
           /\ \A m \in 1..(Len(visited) - 1) :
                  /\ VoxelIn(visited[m])
                  /\ CodeAt(visited[m]) \notin call.opaque_values
                  /\ visited[m] # call.target
           /\ result = (/\ VoxelIn(LastVisited)
                        /\ CodeAt(LastVisited) \notin call.opaque_values
                        /\ LastVisited = call.target)
           /\ (~result) = (\/ ~VoxelIn(LastVisited)
                           \/ CodeAt(LastVisited) \in call.opaque_values)

\* a target reached after two steps, in a grid that holds an opaque voxel
C3_Witness ==
    /\ Returned("target") /\ result /\ Len(visited) >= 3
    /\ call.opaque_values # {}

\* a target ray stopped by an opaque voxel at the target itself
C3_WitnessBlocked ==
    /\ Returned("target") /\ ~result /\ Len(visited) >= 2
    /\ LastVisited = call.target

TLt(a, b) == Lt(ray.len2, a, b)
TEq(a, b) == ~TLt(a, b) /\ ~TLt(b, a)
TLe(a, b) == ~TLt(b, a)
Stepped == pc = "loop" /\ ray' # ray

\* C4 as stated: on equal minimal t_max values x is advanced before y before z.
C4_XBeforeYBeforeZ ==
    [][Stepped =>
        /\ (TEq(ray.t_max_x, ray.t_max_y) /\ TLe(ray.t_max_x, ray.t_max_z)) => ray'.i # ray.i
        /\ (TEq(ray.t_max_x, ray.t_max_z) /\ TLe(ray.t_max_x, ray.t_max_y)) => ray'.i # ray.i
        /\ (TEq(ray.t_max_y, ray.t_max_z) /\ TLt(ray.t_max_y, ray.t_max_x)) => ray'.j # ray.j
      ]_vars

\* C4: in all three kernels, when two or three pending t_max values are equal
\* and minimal, the axis advanced is z when z is among them, and y when only
\* x and y tie: the priority is z before y before x.
C4_ZBeforeYBeforeX ==
    [][Stepped =>
        /\ (TEq(ray.t_max_z, ray.t_max_x) /\ TLe(ray.t_max_z, ray.t_max_y)) => ray'.k # ray.k
        /\ (TEq(ray.t_max_z, ray.t_max_y) /\ TLe(ray.t_max_z, ray.t_max_x)) => ray'.k # ray.k
        /\ (TEq(ray.t_max_x, ray.t_max_y) /\ TLt(ray.t_max_x, ray.t_max_z)) => ray'.j # ray.j
      ]_vars

\* the diagonal ray from the corner: z, then y, then x, then z again
C4_Witness ==
    /\ call.direction = <<1, 1, 1>> /\ call.origin = <<0, 0, 0>>
    /\ Len(visited) >= 4
    /\ visited[2] = <<0, 0, 1>> /\ visited[3] = <<0, 1, 1>> /\ visited[4] = <<1, 1, 1>>

\* C5: a zero-length ray returns without reading the grid: False from trace_ray
\* and trace_ray_sky for direction (0,0,0), True from trace_ray_to_target when
\* origin equals target, whatever the grid holds and wherever the origin is.
C5_ZeroLength ==
    (pc # "idle" /\ call.direction = <<0, 0, 0>>) =>
        /\ pc = "done"
        /\ reads = {} /\ visited = <<>>
        /\ result = (call.mode = "target")
        /\ call.mode = "target" => call.origin = call.target

\* a zero-length target ray from above the grid
C5_Witness ==
    /\ pc = "done" /\ call.mode = "target" /\ call.origin = call.target
    /\ ~VoxelIn(call.origin) /\ result

\* a zero-length green ray from a green voxel
C5_WitnessGreen ==
    /\ pc = "done" /\ call.mode = "green" /\ call.direction = <<0, 0, 0>>
    /\ VoxelIn(call.origin) /\ CodeAt(call.origin) = 2 /\ ~result

-----------------------------------------------------------------------------
(* Observer search and per-observer evaluation *)

\* the map's "no valid observer" value np.nan, written as the fraction 0/0;
\* every other cell is a fraction <<hits, total_rays>>
NaN == <<0, 0>>

\* view.py:153  codes an observer can stand in (GVI)
WalkableGVI == {0, -2}

\* view.py:155  supports a GVI observer may not stand on
ExcludedGVI == {-3, 7, 8, 9}

\* view.py:391  codes an observer can stand in (SVI)
WalkableSVI == {0, -2}

\* view.py:393  supports an SVI observer may not stand on
ExcludedSVI == {-3, 7, 8, 9}

\* a landmark driver that lets an observer stand on a tree-interior cell
ExcludedLandmarkWithoutTree == {-3, 7, 8, 9}

\* a landmark driver that keeps observers off the landmark itself
ExcludedLandmarkWithTarget == {-30, -3, -2, 7, 8, 9}

\* view.py:661  supports a landmark observer may not stand on
ExcludedLandmark == {-3, -2, 7, 8, 9}

\* a z loop that applies the GVI test in every mode
IsTransitionUniform(mode, cur, below) == cur \in {0, -2} /\ below \notin {0, -2}

\* view.py:153, 391, 659: the test of the z loop on voxel_data[x, y, z] and
\* voxel_data[x, y, z - 1]
IsTransition(mode, cur, below) ==
    CASE mode = "gvi" -> cur \in WalkableGVI /\ below \notin WalkableGVI
      [] mode = "svi" -> cur \in WalkableSVI /\ below \notin WalkableSVI
      [] mode = "landmark" -> cur = 0 /\ below # 0

\* a z loop that accepts every support
IsExcludedNever(mode, below) == FALSE

\* view.py:155, 393, 661
IsExcluded(mode, below) ==
    CASE mode = "gvi" -> below \in ExcludedGVI
      [] mode = "svi" -> below \in ExcludedSVI
      [] mode = "landmark" -> below \in ExcludedLandmark

\* a z loop that goes on to the next transition when the support is excluded
RECURSIVE FindObserverContinue(_, _, _, _, _)
FindObserverContinue(v, mode, x, y, z) ==
    IF z >= NzOf(v) THEN [found |-> FALSE, excluded |-> FALSE, z |-> z - 1]
    ELSE IF /\ IsTransition(mode, v[x][y][z], v[x][y][z - 1])
            /\ ~IsExcluded(mode, v[x][y][z - 1])
         THEN [found |-> TRUE, excluded |-> FALSE, z |-> z]
    ELSE FindObserverContinue(v, mode, x, y, z + 1)

\* view.py:150-165, 389-403, 658-671: for z in range(1, nz) up to the break.
\* z is the value of the loop variable when the loop ends, found whether it
\* ended at a break.
RECURSIVE FindObserver(_, _, _, _, _)
FindObserver(v, mode, x, y, z) ==
    IF z >= NzOf(v) THEN [found |-> FALSE, excluded |-> FALSE, z |-> z - 1]
    ELSE IF IsTransition(mode, v[x][y][z], v[x][y][z - 1])
         THEN [found |-> TRUE, excluded |-> IsExcluded(mode, v[x][y][z - 1]), z |-> z]
    ELSE FindObserver(v, mode, x, y, z + 1)

\* view.py:127, 366  green_count / total_rays with total_rays = 0 (an empty
\* ray_directions array): the division raises ZeroDivisionError.  The value
\* stands for the exception; it is no fraction and not NaN.
ZeroDivisionError == <<0, 0 - 1>>

\* a compute_gvi that returns the count of green rays, not the ratio
compute_gvi_count(observer_location, v, ray_directions) ==
    <<Cardinality({idx \in 1..Len(ray_directions) :
                      trace_ray(v, observer_location, ray_directions[idx])}),
      1>>

\* view.py:117-128  compute_gvi
compute_gvi(observer_location, v, ray_directions) ==
    LET total_rays == Len(ray_directions)
        green_count == Cardinality({idx \in 1..total_rays :
                          trace_ray(v, observer_location, ray_directions[idx])})
    IN IF total_rays = 0 THEN ZeroDivisionError ELSE <<green_count, total_rays>>

\* a compute_svi that counts the rays that are stopped
compute_svi_blocked(observer_location, v, ray_directions) ==
    <<Cardinality({idx \in 1..Len(ray_directions) :
                      ~trace_ray_sky(v, observer_location, ray_directions[idx])}),
      Len(ray_directions)>>

\* view.py:356-367  compute_svi
compute_svi(observer_location, v, ray_directions) ==
    LET total_rays == Len(ray_directions)
        sky_count == Cardinality({idx \in 1..total_rays :
                        trace_ray_sky(v, observer_location, ray_directions[idx])})
    IN IF total_rays = 0 THEN ZeroDivisionError ELSE <<sky_count, total_rays>>

\* a loop over the landmarks that traces every target and does not return
\* at the first visible one
RECURSIVE VisibleFromAll(_, _, _, _, _)
VisibleFromAll(observer_location, landmark_positions, v, opaque_values, idx) ==
    IF idx > Len(landmark_positions) THEN [value |-> 0, traced |-> idx - 1]
    ELSE LET rest == VisibleFromAll(observer_location, landmark_positions, v,
                                    opaque_values, idx + 1)
         IN IF trace_ray_to_target(v, observer_location, landmark_positions[idx],
                                   opaque_values)
            THEN [value |-> 1, traced |-> rest.traced]
            ELSE rest

\* view.py:630-635  the loop of compute_visibility_to_all_landmarks from idx on:
\* the value returned and the number of targets traced
RECURSIVE VisibleFrom(_, _, _, _, _)
VisibleFrom(observer_location, landmark_positions, v, opaque_values, idx) ==
    IF idx > Len(landmark_positions) THEN [value |-> 0, traced |-> idx - 1]
    ELSE IF trace_ray_to_target(v, observer_location, landmark_positions[idx],
                                opaque_values)
         THEN [value |-> 1, traced |-> idx]
    ELSE VisibleFrom(observer_location, landmark_positions, v, opaque_values, idx + 1)

\* view.py:616-635
compute_visibility_to_all_landmarks(observer_location, landmark_positions, v, opaque_values) ==
    VisibleFrom(observer_location, landmark_positions, v, opaque_values, 1).value

\* view.py:693  np.argwhere(voxel_data == target_value): the matching indices in
\* row-major order, built axis by axis
RECURSIVE ArgWhereZ(_, _, _, _, _)
ArgWhereZ(v, target_value, x, y, z) ==
    IF z >= NzOf(v) THEN <<>>
    ELSE (IF v[x][y][z] = target_value THEN <<<<x, y, z>>>> ELSE <<>>)
         \o ArgWhereZ(v, target_value, x, y, z + 1)

RECURSIVE ArgWhereY(_, _, _, _)
ArgWhereY(v, target_value, x, y) ==
    IF y >= NyOf(v) THEN <<>>
    ELSE ArgWhereZ(v, target_value, x, y, 0) \o ArgWhereY(v, target_value, x, y + 1)

RECURSIVE ArgWhereX(_, _, _)
ArgWhereX(v, target_value, x) ==
    IF x >= NxOf(v) THEN <<>>
    ELSE ArgWhereY(v, target_value, x, 0) \o ArgWhereX(v, target_value, x + 1)

ArgWhere(v, target_value) == ArgWhereX(v, target_value, 0)

\* a return without the flip
FlipudNever(m) == m

\* np.flipud: reverse the first axis
Flipud(m) == [x \in DOMAIN m |-> m[Cardinality(DOMAIN m) - 1 - x]]

\* view.py:131, 370: ray_directions, the array of direction vectors
\* compute_gvi_map and compute_svi_map are called with.  The drivers take any
\* array; these two are inputs with integer components, four horizontal
\* directions along the axes and four oblique ones (downward and upward for
\* GVI, upward for SVI).  They are not the arrays get_green_view_index and
\* get_sky_view_index build (600 and 300 unit vectors of cosines and sines),
\* which the fractions of this module cannot hold; of those, the four
\* horizontal directions along the axes are in SviDirections.
GviDirections ==
    << <<1, 0, 0>>, <<0, 1, 0>>, <<-1, 0, 0>>, <<0, -1, 0>>,
       <<2, 0, 1>>, <<0, 2, 1>>, <<-2, 0, -1>>, <<0, -2, -1>> >>

SviDirections ==
    << <<1, 0, 0>>, <<0, 1, 0>>, <<-1, 0, 0>>, <<0, -1, 0>>,
       <<2, 0, 1>>, <<0, 2, 1>>, <<-2, 0, 1>>, <<0, -2, 1>> >>

\* the arrays a driver is called with: the one above, or an empty array
GviRayDirections == {GviDirections, <<>>}
SviRayDirections == {SviDirections, <<>>}

\* view.py:161-163, 399-401, 667-669: evaluate the observer of column (x, y)
\* found at height z: the value written to the map and the rays traced
Evaluate(v, j, x, y, z) ==
    LET observer_location == <<x, y, z + j.view_height_voxel>>
    IN CASE j.mode = "gvi" ->
              [value |-> compute_gvi(observer_location, v, j.ray_directions),
               rays |-> Len(j.ray_directions)]
         [] j.mode = "svi" ->
              [value |-> compute_svi(observer_location, v, j.ray_directions),
               rays |-> Len(j.ray_directions)]
         [] j.mode = "landmark" ->
              LET r == VisibleFrom(observer_location, j.landmark_positions, v,
                                   j.opaque_values, 1)
              IN [value |-> <<r.value, 1>>, rays |-> r.traced]

\* a y loop without the fallback for a column the z loop ran through: the
\* cell keeps a zero instead of the sentinel
ColumnWithoutSentinel(v, j, x, y) ==
    LET f == FindObserver(v, j.mode, x, y, 1)
        e == IF f.found /\ ~f.excluded THEN Evaluate(v, j, x, y, f.z)
             ELSE IF f.found THEN [value |-> NaN, rays |-> 0]
             ELSE [value |-> <<0, 1>>, rays |-> 0]
    IN [done |-> TRUE, found |-> f.found, excluded |-> f.excluded, z |-> f.z,
        rays |-> e.rays, value |-> e.value]

\* view.py:148-167, 387-406, 656-673: the body of the y loop for one column:
\* what the search did (found: the loop ended at a break; z: the last value
\* of the loop variable; rays: the kernel calls made) and the value written
\* to map[x][y]
Column(v, j, x, y) ==
    LET f == FindObserver(v, j.mode, x, y, 1)
        e == IF f.found /\ ~f.excluded
             THEN Evaluate(v, j, x, y, f.z) ELSE [value |-> NaN, rays |-> 0]
    IN [done |-> TRUE, found |-> f.found, excluded |-> f.excluded, z |-> f.z,
        rays |-> e.rays, value |-> e.value]

-----------------------------------------------------------------------------
(* Inputs of the map specification *)

\* horizontal extent of the grids the drivers are run on
MapNx == 2
MapNy == 2

\* the grids have 1 .. MaxNz layers
MaxNz == 4

\* view_height_voxel ranges over 0 .. MaxViewHeight
MaxViewHeight == 1

\* codes of the one column that is arbitrary, column (0, 0): void, tree
\* interior, building volume, a plain land cover
ColumnCodes == {0, -2, -3, 1}

\* the other columns, all alike: bare ground, a landmark voxel or a tree canopy
\* surface (code 7) at z = 0, void above
GroundColumn(nz) == [z \in 0..(nz - 1) |-> IF z = 0 THEN 1 ELSE 0]
LandmarkColumn(nz) == [z \in 0..(nz - 1) |-> IF z = 0 THEN TargetValue ELSE 0]
CanopyColumn(nz) == [z \in 0..(nz - 1) |-> IF z = 0 THEN 7 ELSE 0]

MapGrids ==
    UNION {
        {[x \in 0..(MapNx - 1) |-> [y \in 0..(MapNy - 1) |->
              IF x = 0 /\ y = 0 THEN col ELSE rest]] :
            col \in [0..(nz - 1) -> ColumnCodes],
            rest \in {GroundColumn(nz), LandmarkColumn(nz), CanopyColumn(nz)}} :
        nz \in 1..MaxNz}

\* the 5 x 5 x 10 grid that is void except for building volume at [2, 2, 0..2]
ScenarioGrid ==
    [x \in 0..4 |-> [y \in 0..4 |-> [z \in 0..9 |->
        IF x = 2 /\ y = 2 /\ z <= 2 THEN BuildingCode ELSE 0]]]

\* the same grid on a ground layer: land cover 1 at z = 0 of every other column
ScenarioGroundGrid ==
    [x \in 0..4 |-> [y \in 0..4 |-> [z \in 0..9 |->
        IF x = 2 /\ y = 2 /\ z <= 2 THEN BuildingCode
        ELSE IF z = 0 THEN 1 ELSE 0]]]

\* a 3 x 1 x 2 grid with two landmark voxels: (0, 0, 0) under building volume,
\* hidden from the observer of column (1, 0), and (2, 0, 1), in its sight
OcclusionGrid ==
    [x \in 0..2 |-> [y \in 0..0 |-> [z \in 0..1 |->
        CASE x = 0 -> IF z = 0 THEN TargetValue ELSE BuildingCode
          [] x = 1 -> IF z = 0 THEN 1 ELSE 0
          [] x = 2 -> IF z = 0 THEN 0 ELSE TargetValue]]]

InitMap ==
    /\ voxel_data \in MapGrids \cup {ScenarioGrid, ScenarioGroundGrid, OcclusionGrid}
    /\ KernelIdle
    /\ MapIdle
    /\ building_id_grid = <<>>
    /\ CallerIdle

-----------------------------------------------------------------------------
(* The map drivers *)

NoSearch == [done |-> FALSE, found |-> FALSE, excluded |-> FALSE, z |-> 0, rays |-> 0,
             value |-> NaN]

\* view.py:142-143, 381-382, 650-651: np.full((nx, ny), np.nan)
Begin(j) ==
    /\ job' = j
    /\ map' = [x \in 0..(NxOf(voxel_data) - 1) |->
                  [y \in 0..(NyOf(voxel_data) - 1) |-> NaN]]
    /\ scan' = [x \in 0..(NxOf(voxel_data) - 1) |->
                   [y \in 0..(NyOf(voxel_data) - 1) |-> NoSearch]]
    /\ pos' = 0
    /\ mpc' = "scan"
    /\ UNCHANGED <<voxel_data, kernelVars, returned, callerVars>>

\* view.py:131-143  compute_gvi_map is entered
StartGVI ==
    /\ mpc = "idle"
    /\ marking.stage = "none"
    /\ \E h \in 0..MaxViewHeight, ray_directions \in GviRayDirections :
         Begin([mode |-> "gvi", view_height_voxel |-> h,
                ray_directions |-> ray_directions,
                landmark_positions |-> <<>>, opaque_values |-> {}])

\* view.py:370-382  compute_svi_map is entered
StartSVI ==
    /\ mpc = "idle"
    /\ marking.stage = "none"
    /\ \E h \in 0..MaxViewHeight, ray_directions \in SviRayDirections :
         Begin([mode |-> "svi", view_height_voxel |-> h,
                ray_directions |-> ray_directions,
                landmark_positions |-> <<>>, opaque_values |-> {}])

\* a compute_landmark_visibility that goes on with an empty target list
ComputeLandmarkVisibilityNoRaise(view_height_voxel) ==
    Begin([mode |-> "landmark", view_height_voxel |-> view_height_voxel,
           ray_directions |-> <<>>,
           landmark_positions |-> ArgWhere(voxel_data, TargetValue),
           opaque_values |-> OpaqueValuesOf(voxel_data, TargetValue)])

\* view.py:692-703, 650-651  compute_landmark_visibility up to the column loop
\* of compute_visibility_map; without a landmark voxel it raises ValueError
ComputeLandmarkVisibility(view_height_voxel) ==
    LET landmark_positions == ArgWhere(voxel_data, TargetValue)
    IN IF Len(landmark_positions) = 0
       THEN /\ mpc' = "error"
            /\ UNCHANGED <<voxel_data, kernelVars, job, pos, map, scan, returned, callerVars>>
       ELSE Begin([mode |-> "landmark", view_height_voxel |-> view_height_voxel,
                   ray_directions |-> <<>>,
                   landmark_positions |-> landmark_positions,
                   opaque_values |-> OpaqueValuesOf(voxel_data, TargetValue)])

\* compute_landmark_visibility called on the grid as it is
StartLandmark ==
    /\ mpc = "idle"
    /\ marking.stage = "none"
    /\ \E h \in 0..MaxViewHeight : ComputeLandmarkVisibility(h)

\* one pass of the x loop (one prange iteration): every column (x, y) of row
\* x = pos is searched, evaluated and written, y = 0 .. ny - 1.  When the
\* evaluation of a column raises, the columns before it are written and the
\* driver is left by the exception, without a map.
ComputeRow ==
    \E columns \in {{<<y, Column(voxel_data, job, pos, y)>> :
                          y \in 0..(NyOf(voxel_data) - 1)}} :
        LET x == pos
            last == x = NxOf(voxel_data) - 1
            raising == {c[1] : c \in {d \in columns : d[2].value = ZeroDivisionError}}
            written == {c \in columns : \A r \in raising : c[1] < r}
        IN /\ scan' = [scan EXCEPT ![x] =
                          [y \in 0..(NyOf(voxel_data) - 1) |->
                              IF \E c \in written : c[1] = y
                              THEN (CHOOSE c \in written : c[1] = y)[2]
                              ELSE scan[x][y]]]
           /\ map' = [map EXCEPT ![x] =
                         [y \in 0..(NyOf(voxel_data) - 1) |->
                             IF scan'[x][y].done THEN scan'[x][y].value ELSE map[x][y]]]
           /\ pos' = IF last \/ raising # {} THEN pos ELSE x + 1
           /\ mpc' = IF raising # {} THEN "zero_division"
                     ELSE IF last THEN "flip" ELSE "scan"
           /\ UNCHANGED <<voxel_data, kernelVars, job, returned, callerVars>>

\* view.py:146-167
RowGVI == mpc = "scan" /\ job.mode = "gvi" /\ ComputeRow

\* view.py:385-406
RowSVI == mpc = "scan" /\ job.mode = "svi" /\ ComputeRow

\* view.py:654-673
RowLandmark == mpc = "scan" /\ job.mode = "landmark" /\ ComputeRow

\* view.py:169, 409, 722: return np.flipud(map)
ReturnMap ==
    /\ mpc = "flip"
    /\ returned' = Flipud(map)
    /\ mpc' = "done"
    /\ UNCHANGED <<voxel_data, kernelVars, job, pos, map, scan, callerVars>>

NextMap ==
    \/ StartGVI
    \/ StartSVI
    \/ StartLandmark
    \/ RowGVI
    \/ RowSVI
    \/ RowLandmark
    \/ ReturnMap

SpecMap == InitMap /\ [][NextMap]_vars

-----------------------------------------------------------------------------
(* Claims about the observer search, checked under SpecMap *)

Searching == mpc \in {"scan", "flip", "done"}
Columns == {<<x, y>> : x \in 0..(NxOf(voxel_data) - 1), y \in 0..(NyOf(voxel_data) - 1)}
Heights == 1..(NzOf(voxel_data) - 1)
Searched(c) == Searching /\ scan[c[1]][c[2]].done
SearchOf(c) == scan[c[1]][c[2]]
CellOf(c, z) == voxel_data[c[1]][c[2]][z]
Evaluated(c) == SearchOf(c).found /\ ~SearchOf(c).excluded

\* the spec's test: a cell in {0, -2} directly above a cell not in {0, -2}
StandableOnSolid(c, z) == CellOf(c, z) \in {0, -2} /\ CellOf(c, z - 1) \notin {0, -2}

\* the landmark driver's test: a void cell directly above a non-void cell
VoidOnNonVoid(c, z) == CellOf(c, z) = 0 /\ CellOf(c, z - 1) # 0

\* the test each driver applies
ModeTest(c, z) ==
    IF job.mode = "landmark" THEN VoidOnNonVoid(c, z) ELSE StandableOnSolid(c, z)

\* the excluded-support set of each driver
ModeExcluded == IF job.mode = "landmark" THEN {-3, -2, 7, 8, 9} ELSE {-3, 7, 8, 9}

FirstStandableOnSolid(c, z) ==
    z \in Heights /\ StandableOnSolid(c, z)
    /\ \A w \in 1..(z - 1) : ~StandableOnSolid(c, w)

FirstByMode(c, z) ==
    z \in Heights /\ ModeTest(c, z) /\ \A w \in 1..(z - 1) : ~ModeTest(c, w)

\* C6 as stated: in every mode the search selects the first z whose cell is in
\* {0, -2} and whose cell below is not.
C6_SameTestInEveryMode ==
    \A c \in Columns : Searched(c) =>
        /\ SearchOf(c).found = (\E z \in Heights : StandableOnSolid(c, z))
        /\ SearchOf(c).found => FirstStandableOnSolid(c, SearchOf(c).z)

\* C6: the GVI and SVI drivers scan each column upward from z = 1 and select
\* the first z whose cell is in {0, -2} and whose cell below is not in
\* {0, -2}; the landmark driver selects the first z whose cell is 0 and whose
\* cell below is not 0.
C6_TestPerMode ==
    \A c \in Columns : Searched(c) =>
        /\ SearchOf(c).found = (\E z \in Heights : ModeTest(c, z))
        /\ SearchOf(c).found => FirstByMode(c, SearchOf(c).z)

\* a landmark search that passed a tree-interior cell standing on the ground
C6_Witness ==
    /\ Searched(<<0, 0>>) /\ job.mode = "landmark"
    /\ SearchOf(<<0, 0>>).found /\ SearchOf(<<0, 0>>).z = 2
    /\ CellOf(<<0, 0>>, 0) = 1 /\ CellOf(<<0, 0>>, 1) = -2

\* a legal standing position of the mode: the mode's test holds at z and the
\* support is not excluded
Legal(c, z) == z \in Heights /\ ModeTest(c, z) /\ CellOf(c, z - 1) \notin ModeExcluded

LowestLegal(c, z) == Legal(c, z) /\ \A w \in 1..(z - 1) : ~Legal(c, w)

\* the kernel calls one observer costs at most
RaysPerObserver ==
    IF job.mode = "landmark" THEN Len(job.landmark_positions) ELSE Len(job.ray_directions)

\* C7 as stated: at most one observer per column, and whenever the column has
\* a legal standing position the observer evaluated is the lowest one.
C7_LowestLegalAlways ==
    \A c \in Columns : Searched(c) =>
        /\ SearchOf(c).rays <= RaysPerObserver
        /\ (\E z \in Heights : Legal(c, z)) =>
               Evaluated(c) /\ LowestLegal(c, SearchOf(c).z)

\* C7: the driver evaluates at most one observer per column; it evaluates one
\* exactly when the support of the column's lowest transition is not
\* excluded, and that observer is then at the lowest legal position.  When
\* the lowest transition has an excluded support no observer is evaluated,
\* also when a legal position exists higher up.
C7_LowestTransitionOnly ==
    \A c \in Columns : Searched(c) =>
        /\ SearchOf(c).rays <= RaysPerObserver
        /\ Evaluated(c) = (\E z \in Heights :
                              FirstByMode(c, z) /\ CellOf(c, z - 1) \notin ModeExcluded)
        /\ Evaluated(c) =>
               /\ LowestLegal(c, SearchOf(c).z)
               /\ SearchOf(c).rays >= 1
               /\ SearchOf(c).value # NaN
        /\ ~Evaluated(c) => SearchOf(c).rays = 0 /\ SearchOf(c).value = NaN

\* a column with a void cell on a building and a legal position above it
C7_Witness ==
    /\ Searched(<<0, 0>>) /\ job.mode = "gvi"
    /\ ~Evaluated(<<0, 0>>)
    /\ \E z \in Heights : Legal(<<0, 0>>, z)

\* an observer evaluated above an untested-as-transition lower part
C7_WitnessEvaluated ==
    /\ Searched(<<0, 0>>) /\ Evaluated(<<0, 0>>) /\ SearchOf(<<0, 0>>).z >= 3

\* C8 as stated: when the lowest standable-on-solid transition (cell in
\* {0, -2} above a cell not in {0, -2}) has a support in the mode's excluded
\* set, the cell is NaN, no ray is cast and the scan stops there.
C8_ExcludedSupportUniform ==
    \A c \in Columns : Searched(c) =>
        \A z \in Heights :
            (FirstStandableOnSolid(c, z) /\ CellOf(c, z - 1) \in ModeExcluded) =>
                /\ map[c[1]][c[2]] = NaN
                /\ SearchOf(c).rays = 0
                /\ SearchOf(c).z = z

\* C8: when the lowest transition found by the mode's own test (cell in
\* {0, -2} above a cell not in {0, -2} for GVI and SVI, cell 0 above a cell
\* not 0 for landmark visibility) has a support in the mode's excluded set,
\* the cell is NaN, no ray is cast and the scan stops at that z.
C8_ExcludedSupportPerMode ==
    \A c \in Columns : Searched(c) =>
        \A z \in Heights :
            (FirstByMode(c, z) /\ CellOf(c, z - 1) \in ModeExcluded) =>
                /\ map[c[1]][c[2]] = NaN
                /\ SearchOf(c).found /\ SearchOf(c).excluded
                /\ SearchOf(c).rays = 0
                /\ SearchOf(c).z = z

\* a GVI column whose lowest transition stands on building volume, with cells
\* above it that the scan never reached
C8_Witness ==
    /\ Searched(<<0, 0>>) /\ job.mode = "gvi"
    /\ FirstByMode(<<0, 0>>, 1) /\ CellOf(<<0, 0>>, 0) = -3
    /\ NzOf(voxel_data) >= 3

\* a landmark column whose lowest transition stands on a tree-interior cell
C8_WitnessTree ==
    /\ Searched(<<0, 0>>) /\ job.mode = "landmark"
    /\ FirstByMode(<<0, 0>>, 2) /\ CellOf(<<0, 0>>, 1) = -2

\* C9: a column with no standable-on-solid transition at any z in 1..nz-1 (a
\* grid with nz = 1, an all-void column, a column solid to the ceiling) gets
\* NaN and no ray; the computation goes on to the other columns.
C9_NoTransitionGivesNaN ==
    /\ \A c \in Columns :
          (Searched(c) /\ ~\E z \in Heights : StandableOnSolid(c, z)) =>
              /\ map[c[1]][c[2]] = NaN
              /\ SearchOf(c).rays = 0
              /\ ~Evaluated(c)
    /\ mpc = "done" => \A c \in Columns : Searched(c)

\* a finished map of a grid whose column (0, 0) is solid up to the ceiling
C9_Witness ==
    /\ mpc = "done" /\ NzOf(voxel_data) >= 3
    /\ \A z \in 0..(NzOf(voxel_data) - 1) : CellOf(<<0, 0>>, z) = -3
    /\ map[0][0] = NaN

\* a finished map of a grid with a single layer
C9_WitnessOneLayer ==
    /\ mpc = "done" /\ NzOf(voxel_data) = 1
    /\ \A c \in Columns : map[c[1]][c[2]] = NaN

\* C10 as stated: on the 5 x 5 x 10 grid that is void except for building
\* volume at [2, 2, 0..2], column (2, 2) is NaN and every other column has a
\* valid observer at z = 1.
C10_ScenarioAsStated ==
    (voxel_data = ScenarioGrid /\ mpc = "done") =>
        /\ map[2][2] = NaN
        /\ \A c \in Columns \ {<<2, 2>>} :
              map[c[1]][c[2]] # NaN /\ Evaluated(c) /\ SearchOf(c).z = 1

\* C10: on that grid column (2, 2) is NaN, and so is every other column: an
\* all-void column has no cell above a solid one.  On the same grid with a
\* land-cover layer (code 1) at z = 0 of every other column, column (2, 2) is
\* NaN and every other column has a valid observer at z = 1.
C10_Scenario ==
    /\ (voxel_data = ScenarioGrid /\ mpc = "done") =>
          \A c \in Columns : map[c[1]][c[2]] = NaN /\ ~Evaluated(c)
    /\ (voxel_data = ScenarioGroundGrid /\ mpc = "done") =>
          /\ map[2][2] = NaN
          /\ SearchOf(<<2, 2>>).found /\ SearchOf(<<2, 2>>).excluded
          /\ SearchOf(<<2, 2>>).z = 3
          /\ \A c \in Columns \ {<<2, 2>>} :
                map[c[1]][c[2]] # NaN /\ Evaluated(c) /\ SearchOf(c).z = 1

\* the finished GVI map of the scenario grid on a ground layer
C10_Witness ==
    /\ voxel_data = ScenarioGroundGrid /\ mpc = "done" /\ job.mode = "gvi"
    /\ map[2][2] = NaN /\ map[0][0] # NaN

\* the finished SVI map of the scenario grid as given
C10_WitnessVoid ==
    /\ voxel_data = ScenarioGrid /\ mpc = "done" /\ job.mode = "svi"
    /\ map[2][2] = NaN /\ map[0][0] = NaN

-----------------------------------------------------------------------------
(* Claims about the returned map, checked under SpecMap *)

\* the cell of the returned array that holds the result of grid column c
ReturnedFor(c) == returned[NxOf(voxel_data) - 1 - c[1]][c[2]]

\* C11: in each of the three modes the array handed back is the per-column
\* result flipped exactly once along the first axis: returned[nx-1-x][y] is
\* the value computed for grid column (x, y).
C11_FlippedOnce ==
    mpc = "done" =>
        /\ DOMAIN returned = 0..(NxOf(voxel_data) - 1)
        /\ \A c \in Columns :
              /\ ReturnedFor(c) = SearchOf(c).value
              /\ ReturnedFor(c) = map[c[1]][c[2]]

\* a returned landmark map whose first and last rows differ
C11_Witness ==
    /\ mpc = "done" /\ job.mode = "landmark"
    /\ returned[0][0] # returned[NxOf(voxel_data) - 1][0]
    /\ SearchOf(<<0, 0>>).value # NaN

\* C12: every cell of a returned map is NaN or a legal value: k/N with N the
\* number of ray directions and 0 <= k <= N for GVI and SVI, 0 or 1 for
\* landmark visibility; a cell is NaN exactly when its column has no
\* evaluated observer.
C12_LegalValues ==
    mpc = "done" =>
        \A c \in Columns :
            LET r == ReturnedFor(c)
            IN /\ (r = NaN) = ~Evaluated(c)
               /\ r # NaN =>
                     IF job.mode = "landmark"
                     THEN r \in {<<0, 1>>, <<1, 1>>}
                     ELSE /\ r[2] = Len(job.ray_directions)
                          /\ r[2] > 0
                          /\ r[1] \in 0..r[2]

\* a returned GVI map with a cell strictly between 0 and 1 and a NaN cell
C12_Witness ==
    /\ mpc = "done" /\ job.mode = "gvi"
    /\ \E c \in Columns : ReturnedFor(c) # NaN /\ ReturnedFor(c)[1] \in 1..7
    /\ \E c \in Columns : ReturnedFor(c) = NaN

\* a returned landmark map with a visible and a not visible cell
C12_WitnessLandmark ==
    /\ mpc = "done" /\ job.mode = "landmark"
    /\ \E c \in Columns : ReturnedFor(c) = <<1, 1>>
    /\ \E c \in Columns : ReturnedFor(c) = <<0, 1>>

\* the codes that occur in the grid
PresentCodes ==
    {voxel_data[x][y][z] : x \in 0..(NxOf(voxel_data) - 1),
                           y \in 0..(NyOf(voxel_data) - 1),
                           z \in 0..(NzOf(voxel_data) - 1)}

\* C14: in landmark mode a code is in the opaque set if and only if it occurs
\* in the grid and is neither 0 nor the target value.
C14_OpaqueSet ==
    (Searching /\ job.mode = "landmark") =>
        \A code \in -30..9 :
            (code \in job.opaque_values) =
                (code \in PresentCodes /\ code # 0 /\ code # -30)

\* a landmark run on a grid holding void, the target and two other codes
C14_Witness ==
    /\ Searching /\ job.mode = "landmark"
    /\ {0, -30, -3, -2} \subseteq PresentCodes
    /\ job.opaque_values = {-3, -2}

\* whether the landmark at index idx of the target list is visible from the
\* observer of column c
VisibleAt(c, idx) ==
    trace_ray_to_target(voxel_data,
                        <<c[1], c[2], SearchOf(c).z + job.view_height_voxel>>,
                        job.landmark_positions[idx], job.opaque_values)

\* lexicographic order of voxel indices (row-major order)
RowMajorBefore(a, b) ==
    \/ a[1] < b[1]
    \/ a[1] = b[1] /\ a[2] < b[2]
    \/ a[1] = b[1] /\ a[2] = b[2] /\ a[3] < b[3]

\* C15: landmark evaluation at an observer is an OR over the target list: the
\* value is 1 if and only if trace_ray_to_target is True for at least one
\* landmark position, the positions (all target voxels, in row-major order)
\* are tried in list order and none is traced after the first visible one;
\* the value is 0 when none is visible.
C15_ShortCircuitOr ==
    (Searching /\ job.mode = "landmark") =>
        LET n == Len(job.landmark_positions)
        IN /\ \A a, b \in 1..n :
                 a < b => RowMajorBefore(job.landmark_positions[a], job.landmark_positions[b])
           /\ {job.landmark_positions[a] : a \in 1..n}
                 = {<<x, y, z>> \in (0..(NxOf(voxel_data) - 1)) \X (0..(NyOf(voxel_data) - 1))
                                    \X (0..(NzOf(voxel_data) - 1)) :
                        voxel_data[x][y][z] = -30}
           /\ \A c \in Columns : (Searched(c) /\ Evaluated(c)) =>
                 IF \E idx \in 1..n : VisibleAt(c, idx)
                 THEN /\ SearchOf(c).value = <<1, 1>>
                      /\ VisibleAt(c, SearchOf(c).rays)
                      /\ \A idx \in 1..(SearchOf(c).rays - 1) : ~VisibleAt(c, idx)
                 ELSE /\ SearchOf(c).value = <<0, 1>>
                      /\ SearchOf(c).rays = n

\* an observer that sees a landmark after a first one that is hidden
C15_Witness ==
    /\ Searching /\ job.mode = "landmark"
    /\ \E c \in Columns :
          /\ Searched(c) /\ Evaluated(c)
          /\ SearchOf(c).value = <<1, 1>>
          /\ SearchOf(c).rays >= 2

\* an observer that sees the first landmark of several
C15_WitnessFirst ==
    /\ Searching /\ job.mode = "landmark"
    /\ \E c \in Columns :
          /\ Searched(c) /\ Evaluated(c)
          /\ SearchOf(c).rays = 1
          /\ Len(job.landmark_positions) >= 2

\* an observer that sees no landmark
C15_WitnessNone ==
    /\ Searching /\ job.mode = "landmark"
    /\ \E c \in Columns :
          Searched(c) /\ Evaluated(c) /\ SearchOf(c).value = <<0, 1>>

-----------------------------------------------------------------------------
(* get_landmark_visibility_map: marking the landmark buildings, then the   *)
(* landmark computation                                                    *)

\* view.py:513  np.where(np.isin(building_id_grid, ids)): the (x, y) whose id
\* is one of ids, in row-major order
RECURSIVE PositionsY(_, _, _, _)
PositionsY(building_id_grid_flipped, ids, x, y) ==
    IF y >= Cardinality(DOMAIN building_id_grid_flipped[x]) THEN <<>>
    ELSE (IF building_id_grid_flipped[x][y] \in ids THEN <<<<x, y>>>> ELSE <<>>)
         \o PositionsY(building_id_grid_flipped, ids, x, y + 1)

RECURSIVE PositionsX(_, _, _)
PositionsX(building_id_grid_flipped, ids, x) ==
    IF x >= Cardinality(DOMAIN building_id_grid_flipped) THEN <<>>
    ELSE PositionsY(building_id_grid_flipped, ids, x, 0)
         \o PositionsX(building_id_grid_flipped, ids, x + 1)

\* view.py:510-513: the id grid is copied and flipped, then searched
PositionsOf(building_id_grid_ori, ids) ==
    PositionsX(Flipud(building_id_grid_ori), ids, 0)

\* a marking step that overwrites the whole column
MarkColumnAll(column, mark) == [z \in DOMAIN column |-> mark]

\* view.py:519-520: z_mask = column == -3; column[z_mask] = mark
MarkColumn(column, mark) ==
    [z \in DOMAIN column |-> IF column[z] = BuildingCode THEN mark ELSE column[z]]

\* a caller that does not wait for the marking loop
MarksCompleteAlways(m) == TRUE

\* view.py:516, 774-777: the loop of mark_building_by_id has run through all
\* positions, mark_building_by_id returns
MarksComplete(m) == m.i >= Len(m.positions)

\* the landmark_building_ids a caller passes
LandmarkIds == {{}, {1}, {2}, {1, 2}}

\* columns of a city grid: building volume from the ground, building volume
\* on a land-cover voxel
BuildingColumn(nz) == [z \in 0..(nz - 1) |-> IF z < 2 THEN BuildingCode ELSE 0]
PodiumColumn(nz) ==
    [z \in 0..(nz - 1) |-> IF z = 0 THEN 1 ELSE IF z = 1 THEN BuildingCode ELSE 0]

CityColumns(nz) ==
    {GroundColumn(nz), BuildingColumn(nz), PodiumColumn(nz), LandmarkColumn(nz)}

\* ground everywhere except columns (0, 0) and (nx - 1, 0)
CityGrids ==
    {[x \in 0..(MapNx - 1) |-> [y \in 0..(MapNy - 1) |->
          IF x = 0 /\ y = 0 THEN k0
          ELSE IF x = MapNx - 1 /\ y = 0 THEN k1
          ELSE GroundColumn(MaxNz)]] :
        k0 \in CityColumns(MaxNz), k1 \in CityColumns(MaxNz)}

\* id 0 (no building) everywhere except entries (0, 0) and (nx - 1, 0)
BuildingIdGrids ==
    {[x \in 0..(MapNx - 1) |-> [y \in 0..(MapNy - 1) |->
          IF x = 0 /\ y = 0 THEN i0
          ELSE IF x = MapNx - 1 /\ y = 0 THEN i1
          ELSE 0]] :
        i0 \in 0..2, i1 \in 0..2}

InitLandmark ==
    /\ voxel_data \in CityGrids
    /\ building_id_grid \in BuildingIdGrids
    /\ KernelIdle
    /\ MapIdle
    /\ CallerIdle

\* the keyword arguments that name the landmark: landmark_building_ids,
\* rectangle_vertices without landmark_building_ids, or neither
LandmarkKwargs == {"landmark_building_ids", "rectangle_vertices", "neither"}

\* view.py:746-774, 510-513: get_landmark_visibility_map is called.  With
\* landmark_building_ids the ids are those; with rectangle_vertices only they
\* are what find_building_containing_point returns for the centre of the
\* rectangle (a list of ids; the function is not in view.py, any list can
\* come back); with neither the function prints a message and returns None
\* (view.py:757-761).  Otherwise mark_building_by_id is entered and finds
\* the positions to mark.
CallGetLandmarkVisibilityMap ==
    /\ mpc = "idle"
    /\ marking.stage = "none"
    /\ \E given \in LandmarkKwargs, ids \in LandmarkIds, h \in 0..MaxViewHeight :
         IF given = "neither"
         THEN marking' = [stage |-> "returned_none", ids |-> {}, positions |-> <<>>,
                          i |-> 0, view_height_voxel |-> h, before |-> voxel_data]
         ELSE marking' = [stage |-> "called", ids |-> ids,
                          positions |-> PositionsOf(building_id_grid, ids), i |-> 0,
                          view_height_voxel |-> h, before |-> voxel_data]
    /\ UNCHANGED <<voxel_data, kernelVars, mapVars, building_id_grid, workers, first>>

\* view.py:516-520: one pass of the loop of mark_building_by_id
MarkPosition ==
    /\ marking.stage = "called"
    /\ marking.i < Len(marking.positions)
    /\ LET x == marking.positions[marking.i + 1][1]
           y == marking.positions[marking.i + 1][2]
       IN voxel_data' = [voxel_data EXCEPT ![x][y] = MarkColumn(@, TargetValue)]
    /\ marking' = [marking EXCEPT !.i = @ + 1]
    /\ UNCHANGED <<kernelVars, mapVars, building_id_grid, workers, first>>

\* view.py:777: compute_landmark_visibility is called on the marked grid; its
\* ValueError is not caught
CallComputeLandmarkVisibility ==
    /\ marking.stage = "called"
    /\ mpc = "idle"
    /\ MarksComplete(marking)
    /\ ComputeLandmarkVisibility(marking.view_height_voxel)

\* view.py:779-808: the optional export reads the map and the grid; the map
\* of compute_landmark_visibility is returned
ReturnLandmarkMap ==
    /\ marking.stage = "called"
    /\ mpc = "done"
    /\ marking' = [marking EXCEPT !.stage = "returned"]
    /\ UNCHANGED <<voxel_data, kernelVars, mapVars, building_id_grid, workers, first>>

NextLandmark ==
    \/ StartGVI
    \/ StartSVI
    \/ StartLandmark
    \/ RowGVI
    \/ RowSVI
    \/ RowLandmark
    \/ ReturnMap
    \/ CallGetLandmarkVisibilityMap
    \/ MarkPosition
    \/ CallComputeLandmarkVisibility
    \/ ReturnLandmarkMap

SpecLandmark == InitLandmark /\ [][NextLandmark]_vars

-----------------------------------------------------------------------------
(* Claims about the landmark run, checked under SpecLandmark *)

Cells ==
    {<<x, y, z>> \in (0..(NxOf(voxel_data) - 1)) \X (0..(NyOf(voxel_data) - 1))
                     \X (0..(NzOf(voxel_data) - 1)) : TRUE}

\* whether the grid v holds a voxel with the target marker -30
HoldsTarget(v) == \E c \in Cells : v[c[1]][c[2]][c[3]] = -30

\* whether column (x, y) of the voxel grid belongs to a building with one of
\* the given ids: the id grid is indexed with the first axis reversed
Selected(x, y) == building_id_grid[NxOf(voxel_data) - 1 - x][y] \in marking.ids

\* the building-volume voxels of the selected columns, in the grid as it was
\* when get_landmark_visibility_map was called
ToMark == {c \in Cells : Selected(c[1], c[2]) /\ marking.before[c[1]][c[2]][c[3]] = -3}

\* C13: without a voxel carrying the target marker the landmark computation
\* ends in an error and returns no map: compute_landmark_visibility raises
\* before any column is evaluated, and get_landmark_visibility_map with ids
\* that select no building-volume voxel, on a grid without -30, ends in that
\* error and does not return.
C13_NoLandmarkRaises ==
    /\ mpc = "error" =>
          /\ ~HoldsTarget(voxel_data)
          /\ map = <<>> /\ scan = <<>> /\ returned = <<>>
          /\ marking.stage # "returned"
    /\ (job.mode = "landmark" /\ mpc \in {"scan", "flip", "done"}) => HoldsTarget(voxel_data)
    /\ (marking.stage # "none" /\ mpc # "idle"
        /\ ~HoldsTarget(marking.before) /\ ToMark = {}) =>
          /\ mpc = "error"
          /\ returned = <<>>
          /\ marking.stage = "called"

\* get_landmark_visibility_map ended in the error: its ids select a column,
\* the grid holds building volume, but none in a selected column
C13_Witness ==
    /\ mpc = "error" /\ marking.stage = "called"
    /\ Len(marking.positions) >= 1
    /\ \E c \in Cells : voxel_data[c[1]][c[2]][c[3]] = -3

\* compute_landmark_visibility called on a grid without the marker
C13_WitnessDirect ==
    /\ mpc = "error" /\ marking.stage = "none"

\* C16: the grid is written only by the marking step.  No step changes the
\* caller's building-id grid; a step that changes a voxel is a step of
\* mark_building_by_id, the voxel was -3, lies in a column whose entry in
\* the flipped id grid is one of the ids, and becomes the mark; when the
\* marking loop has ended all those voxels carry the mark.
C16_OnlyMarkingWrites ==
    /\ [][/\ building_id_grid' = building_id_grid
          /\ \A c \in Cells :
                voxel_data'[c[1]][c[2]][c[3]] # voxel_data[c[1]][c[2]][c[3]] =>
                    /\ marking.stage = "called" /\ mpc = "idle"
                    /\ voxel_data[c[1]][c[2]][c[3]] = -3
                    /\ Selected(c[1], c[2])
                    /\ voxel_data'[c[1]][c[2]][c[3]] = -30]_vars
    /\ [](marking.stage # "none" /\ marking.i = Len(marking.positions) =>
             \A c \in Cells :
                 voxel_data[c[1]][c[2]][c[3]] =
                     IF c \in ToMark THEN -30 ELSE marking.before[c[1]][c[2]][c[3]])

\* the marking loop has ended on a grid where it marked a building on a
\* land-cover voxel and left another building alone
C16_Witness ==
    /\ marking.stage = "called" /\ marking.i = Len(marking.positions)
    /\ ToMark # {}
    /\ \E c \in ToMark : marking.before[c[1]][c[2]][0] = 1 /\ voxel_data[c[1]][c[2]][0] = 1
    /\ \E c \in Cells : voxel_data[c[1]][c[2]][c[3]] = -3

\* C17 as stated: once get_landmark_visibility_map has returned, the grid
\* holds the same codes as before the call.
C17_GridRestored ==
    marking.stage = "returned" => voxel_data = marking.before

\* C18: in a landmark run all sentinel writes are done before the target
\* list and the opaque set are computed and before any column is evaluated,
\* and no voxel is written while the column loop runs.
C18_MarkThenCompute ==
    /\ []((marking.stage = "called" /\ mpc # "idle") =>
             /\ marking.i = Len(marking.positions)
             /\ \A c \in Cells :
                   voxel_data[c[1]][c[2]][c[3]] =
                       IF c \in ToMark THEN -30 ELSE marking.before[c[1]][c[2]][c[3]]
             /\ mpc # "error" =>
                   /\ {job.landmark_positions[a] : a \in 1..Len(job.landmark_positions)}
                         = {c \in Cells : c \in ToMark \/ marking.before[c[1]][c[2]][c[3]] = -30}
                   /\ job.opaque_values =
                         {IF c \in ToMark THEN -30 ELSE marking.before[c[1]][c[2]][c[3]] :
                             c \in Cells} \ {0, -30})
    /\ [][(mpc \in {"scan", "flip"}) => (voxel_data' = voxel_data)]_vars

\* the column loop is running after two columns were marked
C18_Witness ==
    /\ marking.stage = "called" /\ mpc = "scan" /\ pos >= 1
    /\ Len(marking.positions) >= 2
    /\ Cardinality(ToMark) >= 2

-----------------------------------------------------------------------------
(* The x loop as a parallel loop (prange): every x is an iteration of its  *)
(* own, the iterations interleave column by column                         *)

\* view.py:131, 370, 677-703: the arguments of a driver run
JobOf(mode, view_height_voxel) ==
    CASE mode = "gvi" ->
           [mode |-> "gvi", view_height_voxel |-> view_height_voxel,
            ray_directions |-> GviDirections,
            landmark_positions |-> <<>>, opaque_values |-> {}]
      [] mode = "svi" ->
           [mode |-> "svi", view_height_voxel |-> view_height_voxel,
            ray_directions |-> SviDirections,
            landmark_positions |-> <<>>, opaque_values |-> {}]
      [] mode = "landmark" ->
           [mode |-> "landmark", view_height_voxel |-> view_height_voxel,
            ray_directions |-> <<>>,
            landmark_positions |-> ArgWhere(voxel_data, TargetValue),
            opaque_values |-> OpaqueValuesOf(voxel_data, TargetValue)]

\* an iteration that stores into row 0 whatever x it runs for
WriteCellRowZero(m, x, y, value) == [m EXCEPT ![0][y] = value]

\* view.py:156, 163, 167 (395, 401, 406; 662, 669, 673): map[x, y] = value
WriteCell(m, x, y, value) == [m EXCEPT ![x][y] = value]

\* iterations that share the locals of the iteration x = 0
LocalOfShared(w, x) == w[0].local

\* view.py:148-163: found_observer, z and the value are assigned inside the
\* prange body, so each iteration has its own
LocalOf(w, x) == w[x].local

\* columns (0, 0) of the grids of the parallel runs: ground, building volume,
\* void, a tree on the ground, ground two voxels thick
TreeColumn(nz) == [z \in 0..(nz - 1) |-> IF z = 0 THEN 1 ELSE IF z = 1 THEN -2 ELSE 0]
VoidColumn(nz) == [z \in 0..(nz - 1) |-> 0]
TerraceColumn(nz) == [z \in 0..(nz - 1) |-> IF z < 2 THEN 1 ELSE 0]

ParColumns(nz) ==
    {GroundColumn(nz), BuildingColumn(nz), VoidColumn(nz), TreeColumn(nz), TerraceColumn(nz)}

ParGrids ==
    {[x \in 0..(MapNx - 1) |-> [y \in 0..(MapNy - 1) |->
          IF x = 0 /\ y = 0 THEN col ELSE rest]] :
        col \in ParColumns(MaxNz),
        rest \in {GroundColumn(MaxNz), LandmarkColumn(MaxNz), CanopyColumn(MaxNz)}}

InitPar ==
    /\ voxel_data \in ParGrids
    /\ KernelIdle
    /\ MapIdle
    /\ building_id_grid = <<>>
    /\ CallerIdle

\* view.py:142-146: the map is created and the iterations start; a landmark
\* run without landmark voxel raises (view.py:695-696) before that
BeginParallel(j, earlier) ==
    /\ first' = earlier
    /\ IF j.mode = "landmark" /\ Len(j.landmark_positions) = 0
       THEN /\ mpc' = "error"
            /\ UNCHANGED <<voxel_data, kernelVars, job, pos, map, scan, returned,
                           building_id_grid, marking, workers>>
       ELSE /\ job' = j
            /\ map' = [x \in 0..(NxOf(voxel_data) - 1) |->
                          [y \in 0..(NyOf(voxel_data) - 1) |-> NaN]]
            /\ scan' = [x \in 0..(NxOf(voxel_data) - 1) |->
                           [y \in 0..(NyOf(voxel_data) - 1) |-> NoSearch]]
            /\ workers' = [x \in 0..(NxOf(voxel_data) - 1) |->
                              [y |-> 0, phase |-> "search", local |-> NoSearch]]
            /\ mpc' = "par"
            /\ UNCHANGED <<voxel_data, kernelVars, pos, returned, building_id_grid, marking>>

\* view.py:131-146
ForkGVI ==
    /\ mpc = "idle"
    /\ \E h \in 0..MaxViewHeight : BeginParallel(JobOf("gvi", h), <<>>)

\* view.py:370-385
ForkSVI ==
    /\ mpc = "idle"
    /\ \E h \in 0..MaxViewHeight : BeginParallel(JobOf("svi", h), <<>>)

\* view.py:677-703, 650-654
ForkLandmark ==
    /\ mpc = "idle"
    /\ \E h \in 0..MaxViewHeight : BeginParallel(JobOf("landmark", h), <<>>)

\* view.py:147-165: iteration x searches column (x, y) and evaluates its
\* observer, reading the grid and the job, into its own locals
WorkerSearch(x) ==
    /\ mpc = "par"
    /\ workers[x].phase = "search"
    /\ workers' = [workers EXCEPT ![x].local = Column(voxel_data, job, x, workers[x].y),
                                  ![x].phase = "write"]
    /\ UNCHANGED <<voxel_data, kernelVars, mpc, job, pos, map, scan, returned,
                   building_id_grid, marking, first>>

\* view.py:156, 163, 167: iteration x stores the value of column (x, y) and
\* goes on to y + 1
WorkerWrite(x) ==
    /\ mpc = "par"
    /\ workers[x].phase = "write"
    /\ LET y == workers[x].y
           local == LocalOf(workers, x)
       IN /\ map' = WriteCell(map, x, y, local.value)
          /\ scan' = [scan EXCEPT ![x][y] = local]
          /\ workers' = [workers EXCEPT
                            ![x].y = y + 1,
                            ![x].phase = IF y + 1 >= NyOf(voxel_data)
                                         THEN "done" ELSE "search"]
    /\ UNCHANGED <<voxel_data, kernelVars, mpc, job, pos, returned,
                   building_id_grid, marking, first>>

\* the end of the prange loop: all iterations have finished
Join ==
    /\ mpc = "par"
    /\ \A x \in DOMAIN workers : workers[x].phase = "done"
    /\ mpc' = "flip"
    /\ UNCHANGED <<voxel_data, kernelVars, job, pos, map, scan, returned, callerVars>>

\* the same driver is run again on the same grid with the same parameters
Rerun ==
    /\ mpc = "done"
    /\ first = <<>>
    /\ BeginParallel(JobOf(job.mode, job.view_height_voxel),
                     [scan |-> scan, returned |-> returned, job |-> job,
                      voxel_data |-> voxel_data])

NextPar ==
    \/ ForkGVI
    \/ ForkSVI
    \/ ForkLandmark
    \/ \E x \in DOMAIN workers : WorkerSearch(x)
    \/ \E x \in DOMAIN workers : WorkerWrite(x)
    \/ Join
    \/ ReturnMap
    \/ Rerun

SpecPar == InitPar /\ [][NextPar]_vars

-----------------------------------------------------------------------------
(* Claims about parallel and repeated runs, checked under SpecPar *)

\* the map of the sequential execution
SequentialMap ==
    [x \in 0..(NxOf(voxel_data) - 1) |->
        [y \in 0..(NyOf(voxel_data) - 1) |-> Column(voxel_data, job, x, y).value]]

\* C19: under every interleaving of the x iterations, an iteration writes
\* only output cells (x, y) of its own x, nothing but the output map is
\* written (grid, directions and code sets are only read), and the final
\* map equals the map of the sequential execution.
C19_ParallelAsSequential ==
    /\ [][(mpc = "par" /\ mpc' = "par") =>
             /\ voxel_data' = voxel_data
             /\ job' = job
             /\ \A x \in DOMAIN map : \A y \in DOMAIN map[x] :
                   map'[x][y] # map[x][y] =>
                       /\ workers[x].phase = "write" /\ workers[x].y = y
                       /\ \A o \in DOMAIN workers \ {x} : workers'[o] = workers[o]]_vars
    /\ []((mpc \in {"flip", "done"} /\ workers # <<>>) =>
             /\ map = SequentialMap
             /\ mpc = "done" => returned = Flipud(SequentialMap))

\* two iterations are both between their search and their store, at
\* different y
C19_Witness ==
    /\ mpc = "par"
    /\ workers[0].phase = "write"
    /\ workers[NxOf(voxel_data) - 1].phase = "write"
    /\ workers[0].y # workers[NxOf(voxel_data) - 1].y
    /\ map[0][0] # NaN

\* a parallel run has finished with a map that has NaN and other cells
C19_WitnessDone ==
    /\ mpc = "done" /\ workers # <<>>
    /\ \E x \in DOMAIN map : \E y \in DOMAIN map[x] : map[x][y] = NaN
    /\ \E x \in DOMAIN map : \E y \in DOMAIN map[x] : map[x][y] # NaN

\* C20: a second run of the same driver on the same grid with the same
\* parameters selects the same observer height in every column and gives
\* the same sentinel columns, and the first run has changed nothing the
\* second one reads.
C20_RepeatedRunsAgree ==
    first # <<>> =>
        /\ voxel_data = first.voxel_data
        /\ mpc \in {"par", "flip", "done"} => job = first.job
        /\ mpc # "error"
        /\ mpc = "done" =>
              /\ \A x \in DOMAIN scan : \A y \in DOMAIN scan[x] :
                    /\ scan[x][y].found = first.scan[x][y].found
                    /\ scan[x][y].excluded = first.scan[x][y].excluded
                    /\ scan[x][y].z = first.scan[x][y].z
                    /\ (returned[x][y] = NaN) = (first.returned[x][y] = NaN)
              /\ returned = first.returned

\* a second run has finished on a grid with a sentinel column and an
\* observer above the ground level
C20_Witness ==
    /\ first # <<>> /\ mpc = "done"
    /\ \E x \in DOMAIN scan : \E y \in DOMAIN scan[x] : returned[x][y] = NaN
    /\ \E x \in DOMAIN scan : \E y \in DOMAIN scan[x] :
          scan[x][y].found /\ ~scan[x][y].excluded /\ scan[x][y].z >= 2

-----------------------------------------------------------------------------
(* Claims about the values of the maps, checked under SpecMap *)

\* the eye level of the observer of column c
EyeLevel(c) == SearchOf(c).z + job.view_height_voxel

\* C21: on a grid without a voxel of a green code (-2, 2, 5, 7) every cell of
\* the GVI map that is not NaN is 0, whatever the eye-height offset.
C21_NoGreenNoView ==
    (job.mode = "gvi" /\ Searching /\ PresentCodes \cap {-2, 2, 5, 7} = {}) =>
        /\ \A c \in Columns : Searched(c) =>
              \/ SearchOf(c).value = NaN
              \/ SearchOf(c).value = <<0, Len(job.ray_directions)>>
        /\ mpc = "done" =>
              \A c \in Columns : ReturnedFor(c) \in {NaN, <<0, Len(job.ray_directions)>>}

\* a returned GVI map of a grid with building volume and no green voxel, with
\* evaluated observers
C21_Witness ==
    /\ job.mode = "gvi" /\ mpc = "done"
    /\ PresentCodes \cap {-2, 2, 5, 7} = {}
    /\ -3 \in PresentCodes
    /\ \E c \in Columns : ReturnedFor(c) = <<0, 8>>

\* whether every cell of column c from the eye level to the ceiling is void
OwnColumnOpen(c) ==
    \A z \in 0..(NzOf(voxel_data) - 1) : z >= EyeLevel(c) => CellOf(c, z) = 0

\* whether every voxel of the grid at or above the eye level of column c is void
OpenAtAndAboveEye(c) ==
    \A d \in Columns : \A z \in 0..(NzOf(voxel_data) - 1) :
        z >= EyeLevel(c) => CellOf(d, z) = 0

\* C22 as stated: an observer whose own column is void from its cell to the
\* ceiling has SVI 1 over the directions of the SVI set.
C22_OpenColumnFullSky ==
    (job.mode = "svi" /\ Searching) =>
        \A c \in Columns : (Searched(c) /\ Evaluated(c) /\ OwnColumnOpen(c)) =>
            SearchOf(c).value = <<Len(job.ray_directions), Len(job.ray_directions)>>

\* C22: an observer has SVI 1 over the directions of the SVI set (elevations
\* 0 and above) when every voxel of the grid at or above its eye level is
\* void, in its own column and in the others; a voxel that is not void in
\* another column at or above the eye level can stop a ray of low elevation,
\* so that an open own column is not enough.
C22_OpenSkyFullSky ==
    (job.mode = "svi" /\ Searching) =>
        \A c \in Columns : (Searched(c) /\ Evaluated(c)) =>
            /\ OpenAtAndAboveEye(c) =>
                  SearchOf(c).value = <<Len(job.ray_directions), Len(job.ray_directions)>>
            /\ SearchOf(c).value[1] < Len(job.ray_directions) =>
                  \E d \in Columns : \E z \in 0..(NzOf(voxel_data) - 1) :
                      z >= EyeLevel(c) /\ CellOf(d, z) # 0

\* an SVI observer under an open sky with full sky view, inside the grid
C22_Witness ==
    /\ job.mode = "svi" /\ Searching
    /\ \E c \in Columns :
          /\ Searched(c) /\ Evaluated(c) /\ OpenAtAndAboveEye(c)
          /\ EyeLevel(c) < NzOf(voxel_data)
          /\ SearchOf(c).value = <<8, 8>>

\* an SVI observer with an open own column whose view a neighbour reduces
C22_WitnessNeighbour ==
    /\ job.mode = "svi" /\ Searching
    /\ \E c \in Columns :
          /\ Searched(c) /\ Evaluated(c) /\ OwnColumnOpen(c)
          /\ SearchOf(c).value[1] < 8

\* C28: the kernels test the origin voxel before the first step: a GVI or SVI
\* observer whose origin voxel (x, y, z + view_height_voxel) holds the
\* tree-interior code -2 has GVI 1 and SVI 0, whatever the rest of the grid
\* holds.
C28_OriginInsideTree ==
    (job.mode \in {"gvi", "svi"} /\ Searching) =>
        \A c \in Columns :
            (/\ Searched(c) /\ Evaluated(c)
             /\ EyeLevel(c) < NzOf(voxel_data)
             /\ CellOf(c, EyeLevel(c)) = -2) =>
                SearchOf(c).value =
                    IF job.mode = "gvi"
                    THEN <<Len(job.ray_directions), Len(job.ray_directions)>>
                    ELSE <<0, Len(job.ray_directions)>>

\* a GVI observer whose eye level, one above its standing cell, is tree interior
C28_Witness ==
    /\ job.mode = "gvi" /\ Searching /\ job.view_height_voxel = 1
    /\ Searched(<<0, 0>>) /\ Evaluated(<<0, 0>>)
    /\ EyeLevel(<<0, 0>>) < NzOf(voxel_data)
    /\ CellOf(<<0, 0>>, EyeLevel(<<0, 0>>)) = -2
    /\ CellOf(<<0, 0>>, SearchOf(<<0, 0>>).z) = 0

\* an SVI observer standing in a tree-interior cell
C28_WitnessSky ==
    /\ job.mode = "svi" /\ Searching /\ job.view_height_voxel = 0
    /\ Searched(<<0, 0>>) /\ Evaluated(<<0, 0>>)
    /\ CellOf(<<0, 0>>, SearchOf(<<0, 0>>).z) = -2
    /\ SearchOf(<<0, 0>>).value = <<0, 8>>


\* the voxels the traversal from origin towards target visits, the two ends
\* included, in at most n steps
RECURSIVE TraversalFrom(_, _, _)
TraversalFrom(r, target, n) ==
    IF <<r.i, r.j, r.k>> = target \/ n = 0 THEN {<<r.i, r.j, r.k>>}
    ELSE {<<r.i, r.j, r.k>>} \cup TraversalFrom(Advance(r), target, n - 1)

Traversal(origin, target) ==
    LET d == Diff(target, origin)
    IN IF d = <<0, 0, 0>> THEN {origin}
       ELSE TraversalFrom(RayInit(origin, d), target, Abs(d[1]) + Abs(d[2]) + Abs(d[3]))

\* whether no voxel of the grid on the traversal holds an opaque code
TraversalClear(origin, target) ==
    \A p \in Traversal(origin, target) :
        InBounds(voxel_data, p[1], p[2], p[3]) =>
            voxel_data[p[1]][p[2]][p[3]] \notin job.opaque_values

\* whether columns c and d share a face
Adjacent(c, d) == Abs(c[1] - d[1]) + Abs(c[2] - d[2]) = 1

\* the landmark voxels of the columns adjacent to column c
AdjacentLandmarks(c) ==
    {job.landmark_positions[idx] : idx \in
        {n \in 1..Len(job.landmark_positions) :
            Adjacent(c, <<job.landmark_positions[n][1], job.landmark_positions[n][2]>>)}}

\* C23 as stated: an observer in a column adjacent to a landmark column has
\* visibility 1 whenever no opaque voxel lies on the traversal from its cell
\* to a landmark voxel of that column.
C23_AdjacentClearVisible ==
    (job.mode = "landmark" /\ Searching) =>
        \A c \in Columns : (Searched(c) /\ Evaluated(c)) =>
            \A t \in AdjacentLandmarks(c) :
                TraversalClear(<<c[1], c[2], EyeLevel(c)>>, t) =>
                    SearchOf(c).value = <<1, 1>>

\* C23: an observer in a column adjacent to a landmark column, whose eye-level
\* cell (z + view_height_voxel) lies inside the grid, has visibility 1 whenever
\* no opaque voxel lies on the traversal from that cell to a landmark voxel of
\* the adjacent column; with the eye level at or above the ceiling the
\* visibility is 0.
C23_AdjacentClearVisibleInside ==
    (job.mode = "landmark" /\ Searching) =>
        \A c \in Columns : (Searched(c) /\ Evaluated(c)) =>
            /\ EyeLevel(c) < NzOf(voxel_data) =>
                  \A t \in AdjacentLandmarks(c) :
                      TraversalClear(<<c[1], c[2], EyeLevel(c)>>, t) =>
                          SearchOf(c).value = <<1, 1>>
            /\ EyeLevel(c) >= NzOf(voxel_data) => SearchOf(c).value = <<0, 1>>

\* an observer on the ground, inside the grid, next to a landmark column it
\* sees, while its own column holds no landmark voxel
C23_Witness ==
    /\ job.mode = "landmark" /\ Searching
    /\ Searched(<<0, 0>>) /\ Evaluated(<<0, 0>>)
    /\ EyeLevel(<<0, 0>>) < NzOf(voxel_data)
    /\ CellOf(<<0, 0>>, 0) = 1
    /\ \E t \in AdjacentLandmarks(<<0, 0>>) : TraversalClear(<<0, 0, EyeLevel(<<0, 0>>)>>, t)
    /\ SearchOf(<<0, 0>>).value = <<1, 1>>

\* an observer whose eye level is the ceiling, next to a landmark column
C23_WitnessCeiling ==
    /\ job.mode = "landmark" /\ Searching
    /\ \E c \in Columns :
          /\ Searched(c) /\ Evaluated(c)
          /\ EyeLevel(c) >= NzOf(voxel_data)
          /\ AdjacentLandmarks(c) # {}
          /\ SearchOf(c).value = <<0, 1>>


\* C30: in landmark mode a column whose lowest void-on-non-void transition
\* stands on a landmark voxel (-30) is not excluded: the observer is placed on
\* the landmark's roof, and with an eye-height offset of 0 its visibility is 1:
\* the ray to the landmark voxel directly below reaches it in one step.
C30_ObserverOnLandmarkRoof ==
    (job.mode = "landmark" /\ Searching) =>
        \A c \in Columns : \A z \in Heights :
            (Searched(c) /\ FirstByMode(c, z) /\ CellOf(c, z - 1) = TargetValue) =>
                /\ Evaluated(c)
                /\ SearchOf(c).z = z
                /\ SearchOf(c).value # NaN
                /\ job.view_height_voxel = 0 =>
                      /\ SearchOf(c).value = <<1, 1>>
                      /\ trace_ray_to_target(voxel_data, <<c[1], c[2], z>>,
                                             <<c[1], c[2], z - 1>>, job.opaque_values)
                      /\ Traversal(<<c[1], c[2], z>>, <<c[1], c[2], z - 1>>)
                             = {<<c[1], c[2], z>>, <<c[1], c[2], z - 1>>}

\* a marked building, two voxels high, with an observer on its roof that sees it
C30_Witness ==
    /\ job.mode = "landmark" /\ Searching /\ job.view_height_voxel = 0
    /\ marking.stage # "none"
    /\ \E c \in Columns :
          /\ Searched(c) /\ Evaluated(c)
          /\ SearchOf(c).z = 2
          /\ CellOf(c, 1) = TargetValue /\ CellOf(c, 0) = TargetValue
          /\ marking.before[c[1]][c[2]][1] = BuildingCode
          /\ SearchOf(c).value = <<1, 1>>

-----------------------------------------------------------------------------
(* Claims about the traversal, checked under SpecRay *)

\* a kernel call that got past the normalisation
InTraversal == pc \in {"loop", "done"} /\ call.direction # <<0, 0, 0>>

\* C25: in the three kernels an axis whose direction component is exactly zero
\* has t_max = +infinity, and the voxel index of that axis never changes during
\* the traversal, whatever the other two components are.
C25_ZeroComponentAxisFixed ==
    InTraversal =>
        /\ call.direction[1] = 0 =>
              /\ ray.t_max_x = Inf /\ ray.i = call.origin[1]
              /\ \A m \in 1..Len(visited) : visited[m][1] = call.origin[1]
        /\ call.direction[2] = 0 =>
              /\ ray.t_max_y = Inf /\ ray.j = call.origin[2]
              /\ \A m \in 1..Len(visited) : visited[m][2] = call.origin[2]
        /\ call.direction[3] = 0 =>
              /\ ray.t_max_z = Inf /\ ray.k = call.origin[3]
              /\ \A m \in 1..Len(visited) : visited[m][3] = call.origin[3]

\* a sky ray with one zero component that made two steps
C25_Witness ==
    /\ pc = "done" /\ call.mode = "sky"
    /\ call.direction[1] = 0 /\ call.direction[2] # 0 /\ call.direction[3] # 0
    /\ Len(visited) >= 3
    /\ ray.t_max_x = Inf

\* a target ray with two zero components that made a step
C25_WitnessTarget ==
    /\ pc = "done" /\ call.mode = "target"
    /\ call.direction[1] # 0 /\ call.direction[2] = 0 /\ call.direction[3] = 0
    /\ Len(visited) >= 2
    /\ result

\* the t_max of an axis after one more step: t_max + t_delta
AfterDelta(t_max, t_delta) ==
    IF t_max[2] = 0 THEN Inf ELSE <<t_max[1] + t_delta[1], t_max[2]>>

\* one step along x, y, z as the claim describes it
OnlyX ==
    /\ ray'.i = ray.i + (IF call.direction[1] >= 0 THEN 1 ELSE -1)
    /\ call.direction[1] # 0
    /\ TLe(ray.t_max_x, ray.t_max_y) /\ TLe(ray.t_max_x, ray.t_max_z)
    /\ ray'.t_max_x = AfterDelta(ray.t_max_x, <<2, Abs(call.direction[1])>>)
    /\ ray'.j = ray.j /\ ray'.k = ray.k
    /\ ray'.t_max_y = ray.t_max_y /\ ray'.t_max_z = ray.t_max_z

OnlyY ==
    /\ ray'.j = ray.j + (IF call.direction[2] >= 0 THEN 1 ELSE -1)
    /\ call.direction[2] # 0
    /\ TLe(ray.t_max_y, ray.t_max_x) /\ TLe(ray.t_max_y, ray.t_max_z)
    /\ ray'.t_max_y = AfterDelta(ray.t_max_y, <<2, Abs(call.direction[2])>>)
    /\ ray'.i = ray.i /\ ray'.k = ray.k
    /\ ray'.t_max_x = ray.t_max_x /\ ray'.t_max_z = ray.t_max_z

OnlyZ ==
    /\ ray'.k = ray.k + (IF call.direction[3] >= 0 THEN 1 ELSE -1)
    /\ call.direction[3] # 0
    /\ TLe(ray.t_max_z, ray.t_max_x) /\ TLe(ray.t_max_z, ray.t_max_y)
    /\ ray'.t_max_z = AfterDelta(ray.t_max_z, <<2, Abs(call.direction[3])>>)
    /\ ray'.i = ray.i /\ ray'.j = ray.j
    /\ ray'.t_max_x = ray.t_max_x /\ ray'.t_max_y = ray.t_max_y

\* the step sizes and signs are set once, before the loop
t_delta_kept(r, n) ==
    /\ n.t_delta_x = r.t_delta_x /\ n.t_delta_y = r.t_delta_y /\ n.t_delta_z = r.t_delta_z
    /\ n.step_x = r.step_x /\ n.step_y = r.step_y /\ n.step_z = r.step_z

\* whether voxels p and q share a face
FaceAdjacent(p, q) ==
    Abs(p[1] - q[1]) + Abs(p[2] - q[2]) + Abs(p[3] - q[3]) = 1

\* C26: each step of a traversal changes exactly one of i, j, k, by the step
\* sign of its axis; the axis is one whose pending t_max is minimal among the
\* three, and the t_delta of that axis is added to its t_max; the other two
\* indices and t_max values stay.  Consecutive visited voxels are face-adjacent.
C26_OneAxisPerStep ==
    [][Stepped => (/\ OnlyX \/ OnlyY \/ OnlyZ
                   /\ t_delta_kept(ray, ray')
                   /\ \A m \in 1..(Len(visited') - 1) :
                          FaceAdjacent(visited'[m], visited'[m + 1])
                   /\ FaceAdjacent(visited'[Len(visited')], <<ray'.i, ray'.j, ray'.k>>))]_vars

\* a green ray of an oblique direction after a step along each of two axes
C26_Witness ==
    /\ pc = "loop" /\ call.mode = "green"
    /\ call.direction = <<2, 1, 0>>
    /\ ray.i # call.origin[1] /\ ray.j # call.origin[2]
    /\ Len(visited) = 2


\* whether p lies in the axis-aligned box spanned by a and b
InBox(p, a, b) ==
    \A n \in 1..3 :
        \/ a[n] <= p[n] /\ p[n] <= b[n]
        \/ b[n] <= p[n] /\ p[n] <= a[n]

\* |dx| + |dy| + |dz| of the call
Manhattan == Abs(call.direction[1]) + Abs(call.direction[2]) + Abs(call.direction[3])

\* a call of trace_ray_to_target between two voxels of a grid without a voxel
\* of an opaque code
UnobstructedCall ==
    /\ call.mode = "target"
    /\ VoxelIn(call.origin) /\ VoxelIn(call.target)
    /\ \A p \in CellsOf(voxel_data) : CodeAt(p) \notin call.opaque_values

\* C27: on a grid without a voxel of an opaque code, trace_ray_to_target from
\* an in-bounds integer origin to an in-bounds integer target returns True
\* after exactly |dx| + |dy| + |dz| steps, and every voxel it visits lies in
\* the axis-aligned box spanned by origin and target.
C27_UnobstructedReachesTarget ==
    (UnobstructedCall /\ pc \in {"loop", "done"}) =>
        /\ \A m \in 1..Len(visited) : InBox(visited[m], call.origin, call.target)
        /\ call.direction # <<0, 0, 0>> =>
              InBox(<<ray.i, ray.j, ray.k>>, call.origin, call.target)
        /\ Len(visited) <= Manhattan + 1
        /\ pc = "done" =>
              /\ result
              /\ call.direction # <<0, 0, 0>> =>
                    /\ Len(visited) = Manhattan + 1
                    /\ LastVisited = call.target

\* an unobstructed ray that ends at its target after a step along each of the
\* three axes, one of them three voxels long
C27_Witness ==
    /\ UnobstructedCall /\ pc = "done" /\ result
    /\ Abs(call.direction[1]) = 1 /\ Abs(call.direction[2]) = 1
    /\ Abs(call.direction[3]) = 3
    /\ Len(visited) = 6


\* an unobstructed ray whose x and z crossings fall on the same t (1/1 and
\* 3/3 of the half length), ending at its target
C27_WitnessTie ==
    /\ UnobstructedCall /\ pc = "done" /\ result
    /\ Abs(call.direction[1]) = 1 /\ call.direction[2] = 0
    /\ Abs(call.direction[3]) = 3
    /\ Len(visited) = 5 /\ LastVisited = call.target


\* C29: when the origin of the rays is at or above the ceiling
\* (z + view_height_voxel >= nz) no voxel is read and no index outside the
\* grid is used: a green ray returns False, a sky ray True and a target ray
\* False at the first bounds test, so that the observer's GVI is 0, its SVI 1
\* and its landmark visibility 0, none of them the sentinel.
C29_OriginAboveCeiling ==
    (InTraversal /\ call.origin[3] >= NzOf(voxel_data)) =>
        /\ reads = {}
        /\ pc = "loop" => visited = <<>>
        /\ pc = "done" =>
              /\ visited = <<call.origin>>
              /\ result = (call.mode = "sky")
        /\ compute_gvi(call.origin, voxel_data, GviDirections)
              = <<0, Len(GviDirections)>>
        /\ compute_svi(call.origin, voxel_data, SviDirections)
              = <<Len(SviDirections), Len(SviDirections)>>
        /\ call.mode = "target" =>
              compute_visibility_to_all_landmarks(call.origin, <<call.target>>,
                                                  voxel_data, call.opaque_values) = 0
        /\ {compute_gvi(call.origin, voxel_data, GviDirections),
            compute_svi(call.origin, voxel_data, SviDirections)} \cap {NaN} = {}

\* a green ray that points down into a grid with a green voxel, from an origin
\* above the ceiling, returned False
C29_Witness ==
    /\ pc = "done" /\ call.mode = "green"
    /\ call.origin[3] = NzOf(voxel_data)
    /\ call.direction = <<0, 0, -1>>
    /\ voxel_data[call.origin[1]][call.origin[2]][NzOf(voxel_data) - 1] = 2
    /\ ~result /\ reads = {}

\* a target ray from above the ceiling to a voxel of the grid returned False
C29_WitnessTarget ==
    /\ pc = "done" /\ call.mode = "target"
    /\ call.origin[3] = NzOf(voxel_data) /\ VoxelIn(call.target)
    /\ call.opaque_values = {}
    /\ ~result /\ reads = {}

\* a sky ray from above the ceiling returned True
C29_WitnessSky ==
    /\ pc = "done" /\ call.mode = "sky"
    /\ call.origin[3] = NzOf(voxel_data)
    /\ call.direction = <<1, 0, 0>>
    /\ result /\ visited = <<call.origin>>

-----------------------------------------------------------------------------
(* Termination of the kernels *)

\* the grids the termination is checked on: the distinguished voxel in a
\* corner of the cube, and the tall void grid
FairGrids ==
    {WithVoxel(UniformGrid(RayN, RayN, RayN, f), p, c) :
        f \in RayFill, c \in RayFeature,
        p \in {<<0, 0, 0>>, <<RayN - 1, RayN - 1, RayN - 1>>}}
    \cup {TallGrid}

InitRayFair ==
    /\ voxel_data \in FairGrids
    /\ KernelIdle
    /\ MapIdle
    /\ building_id_grid = <<>>
    /\ CallerIdle

\* A kernel that has entered its loop goes on executing it: the loop bodies
\* are sequential code without a wait, so each of them is taken when it stays
\* enabled.
SpecRayFair ==
    /\ InitRayFair /\ [][NextRay]_vars
    /\ WF_vars(LoopTraceRay)
    /\ WF_vars(LoopTraceRaySky)
    /\ WF_vars(LoopTraceRayToTarget)

\* the steps an index can make along its axis before it leaves 0..n-1
StepsLeft(d, n, idx) ==
    IF d = 0 THEN 0
    ELSE IF d > 0 THEN (IF idx < n THEN n - idx ELSE 0)
    ELSE (IF idx >= 0 THEN idx + 1 ELSE 0)

\* the steps the traversal r can make before an index leaves the grid
Variant(r) ==
    StepsLeft(call.direction[1], NxOf(voxel_data), r.i)
    + StepsLeft(call.direction[2], NyOf(voxel_data), r.j)
    + StepsLeft(call.direction[3], NzOf(voxel_data), r.k)

\* C24: every kernel call terminates, for every grid, origin and non-zero
\* direction or target: each pass of the loop either returns or moves one
\* index one voxel towards the face of the grid it is heading for, so that a
\* call makes at most nx + ny + nz passes and a kernel in its loop eventually
\* returns.
C24_KernelsTerminate ==
    /\ [](InTraversal =>
            Len(visited) <= NxOf(voxel_data) + NyOf(voxel_data) + NzOf(voxel_data))
    /\ [][Stepped => (Variant(ray') = Variant(ray) - 1 /\ Variant(ray) >= 1)]_vars
    /\ (pc = "loop") ~> (pc = "done")

\* a sky ray that crossed the void tall grid from bottom to top, changed
\* column on the way and left the grid
C24_Witness ==
    /\ pc = "done" /\ call.mode = "sky" /\ result
    /\ voxel_data = TallGrid
    /\ call.origin[3] = 0
    /\ Len(visited) >= NzOf(voxel_data) + 2

\* a target ray that ran to its target through void voxels
C24_WitnessTarget ==
    /\ pc = "done" /\ call.mode = "target" /\ result
    /\ Len(visited) >= 4

=============================================================================
